---------------------------- MODULE Spec2Model ----------------------------
(***************************************************************************)
(* Lowering of a rank-1 constraint system to a sparse (PLONK) constraint   *)
(* system: frontend/cs_to_r1cs_sparse.go, toSparseR1CS and its helpers.    *)
(*                                                                         *)
(* A Term is the record [cid, vid, vis] of the packed word's three fields; *)
(* the all-zero word is ZeroTerm.  Slices are sequences, so the Go index k *)
(* is the TLA+ index k+1.  Scalars (big.Int) are the integers.             *)
(*                                                                         *)
(* Spec is the lowering pass.  WitnessSpec is the witness of a compiled    *)
(* circuit: internal/backend/bw6-672/witness/witness.go, and the readers   *)
(* ReadAndProve and ReadAndVerify of backend/plonk/plonk.go.               *)
(***************************************************************************)
EXTENDS Integers, Sequences, FiniteSets, TLC

VARIABLES cs, curveID, pc, i, j, res, emitted, ret,
          circuit, witness, stream, received, call, result

\* the variables of the witness: the leaves of the circuit, the Witness an
\* assignment fills and WriteTo encodes, the bytes between a writer and a
\* reader, the Witness a reader decodes into, and the last call with what it
\* returned
wvars == <<circuit, witness, stream, received, call, result>>

vars == <<cs, curveID, pc, i, j, res, emitted, ret,
          circuit, witness, stream, received, call, result>>

----------------------------------------------------------------------------
(* Bounds of the model *)

\* longest variable part of a linear expression of a generated constraint
MaxLen == 2
\* largest number of bits of a generated binary decomposition
MaxBits == 2
\* assignments give every variable of the input a value in -MaxVal..MaxVal
MaxVal == 1

----------------------------------------------------------------------------
(* compiled.Term and the coefficient pool *)

CoeffIdZero == 0
CoeffIdOne == 1
CoeffIdMinusOne == 2
CoeffIdTwo == 3

Visibilities == {"Unset", "Public", "Secret", "Internal"}

Pack(vID, cID, visibility) == [cid |-> cID, vid |-> vID, vis |-> visibility]

ZeroTerm == Pack(0, 0, "Unset")

SetVariableID(t, vID) == [t EXCEPT !.vid = vID]

SetCoeffID(t, cID) == [t EXCEPT !.cid = cID]

\* scs.coeffs[id]
Coeff(coeffs, id) == coeffs[id + 1]

\* positions of the pool holding b
PoolHits(coeffs, b) == {k \in 1..Len(coeffs) : coeffs[k] = b}

Min(S) == CHOOSE x \in S : \A y \in S : x <= y

\* the element of a one-element set: The({e(v) : v \in {d}}) is e with v
\* bound to the value of d, so that d is evaluated once
The(S) == CHOOSE e \in S : TRUE

\* coeffID returns the index of b in the pool, appending b when it is new;
\* the result is [coeffs |-> the pool afterwards, id |-> the index]
coeffID(coeffs, b) ==
    CASE b = 0  -> [coeffs |-> coeffs, id |-> CoeffIdZero]
      [] b = 1  -> [coeffs |-> coeffs, id |-> CoeffIdOne]
      [] b = -1 -> [coeffs |-> coeffs, id |-> CoeffIdMinusOne]
      [] b = 2  -> [coeffs |-> coeffs, id |-> CoeffIdTwo]
      [] OTHER  ->
            IF PoolHits(coeffs, b) # {}
            THEN [coeffs |-> coeffs, id |-> Min(PoolHits(coeffs, b)) - 1]
            ELSE [coeffs |-> Append(coeffs, b), id |-> Len(coeffs)]

----------------------------------------------------------------------------
(* The pass's working state scs: the pool, the output under construction,  *)
(* the CS -> CCS map, the solved-variable record, and whether a run-time   *)
(* panic has unwound the pass.                                             *)

\* compiled.SparseR1C{}: every field at its zero value
EmptyGate ==
    [L |-> ZeroTerm, R |-> ZeroTerm, O |-> ZeroTerm,
     M |-> <<ZeroTerm, ZeroTerm>>, K |-> 0, Solver |-> "SingleOutput"]

\* the value of the pool interning of b, threaded through scs
Intern(scs, b) ==
    The({[s |-> [scs EXCEPT !.coeffs = c.coeffs], id |-> c.id] :
           c \in {coeffID(scs.coeffs, b)}})

\* change t's ID to scs.mCStoCCS[t.ID] when t is internal
getCorrespondingTerm(scs, t) ==
    IF t.vis = "Internal"
    THEN SetVariableID(t, scs.mCStoCCS[t.vid + 1])
    ELSE t

\* newTerm creates coeff*new_variable; idCS is the variadic argument (<<>> or
\* <<id>>): when given, the CS -> CCS entry of id becomes the new variable
\* newTerm without its `if len(idCS) > 0` block: the entry is never written
newTermDropsMapping(scs, vID, idCS) == scs.mCStoCCS

newTermRecordsMapping(scs, vID, idCS) ==
    IF Len(idCS) > 0
    THEN [scs.mCStoCCS EXCEPT ![idCS[1] + 1] = vID]
    ELSE scs.mCStoCCS

newTerm(scs, coeff, idCS) ==
    The({[s |-> [c.s EXCEPT !.ccs.NbInternalVariables = @ + 1,
                            !.mCStoCCS = newTermRecordsMapping(
                                           c.s, scs.ccs.NbInternalVariables, idCS)],
          t |-> Pack(scs.ccs.NbInternalVariables, c.id, "Internal")] :
           c \in {Intern(scs, coeff)}})

\* the variable IDs addConstraint copies between L/M[0] and R/M[1]
\* the first two tests write L and R from M, the last two write M from the
\* L and R the first two left
addConstraintFromM(c) ==
    [c EXCEPT !.L = IF c.L = ZeroTerm THEN SetVariableID(c.L, c.M[1].vid) ELSE @,
              !.R = IF c.R = ZeroTerm THEN SetVariableID(c.R, c.M[2].vid) ELSE @]

addConstraintFromLR(c) ==
    [c EXCEPT !.M[1] = IF c.M[1] = ZeroTerm THEN SetVariableID(c.M[1], c.L.vid) ELSE @,
              !.M[2] = IF c.M[2] = ZeroTerm THEN SetVariableID(c.M[2], c.R.vid) ELSE @]

addConstraintNormalise(c) == addConstraintFromLR(addConstraintFromM(c))

\* addConstraint putting the gate in front of the slice
addConstraintInFront(scs, c) ==
    [scs EXCEPT !.ccs.Constraints = <<addConstraintNormalise(c)>> \o @]

addConstraint(scs, c) ==
    [scs EXCEPT !.ccs.Constraints = Append(@, addConstraintNormalise(c))]

recordAssertion(scs, c) ==
    [scs EXCEPT !.ccs.Assertions = Append(@, c)]

\* negate writing -a over the pool's entry of a
negateInPlace(scs, t) ==
    IF t = ZeroTerm
    THEN [s |-> scs, t |-> t]
    ELSE [s |-> [scs EXCEPT !.coeffs[t.cid + 1] = 0 - @], t |-> t]

\* if t = a*variable, negate returns -a*variable
negate(scs, t) ==
    IF t = ZeroTerm
    THEN [s |-> scs, t |-> t]
    ELSE The({[s |-> c.s, t |-> SetCoeffID(t, c.id)] :
                c \in {Intern(scs, 0 - Coeff(scs.coeffs, t.cid))}})

\* multiply leaving the term as it is, whatever the scalar
multiplyByOne(scs, t, c) == [s |-> scs, t |-> t]

\* multiply t by the scalar c
multiply(scs, t, c) ==
    CASE c = 0 -> [s |-> scs, t |-> SetCoeffID(t, CoeffIdZero)]
      [] c = 1 -> [s |-> scs, t |-> t]
      [] c = -1 /\ t.cid = CoeffIdZero -> [s |-> scs, t |-> t]
      [] c = -1 /\ t.cid = CoeffIdOne ->
            [s |-> scs, t |-> SetCoeffID(t, CoeffIdMinusOne)]
      [] c = -1 /\ t.cid = CoeffIdMinusOne ->
            [s |-> scs, t |-> SetCoeffID(t, CoeffIdOne)]
      [] OTHER ->
            The({[s |-> k.s, t |-> SetCoeffID(t, k.id)] :
                   k \in {Intern(scs, Coeff(scs.coeffs, t.cid) * c)}})

\* split without its recursive case: the first term of le stands for all
splitFirstTerm(scs, acc, le) ==
    [s |-> scs, t |-> IF Len(le) = 0 THEN acc ELSE getCorrespondingTerm(scs, le[1])]

\* split reduces the linear expression le to one term, emitting a chain of
\* additions; acc is the term accumulated so far (ZeroTerm on the first call)
RECURSIVE split(_, _, _)
split(scs, acc, le) ==
    IF Len(le) = 0
    THEN [s |-> scs, t |-> acc]
    ELSE IF acc = ZeroTerm
    THEN split(scs, getCorrespondingTerm(scs, le[1]), Tail(le))
    ELSE The({The({split(n.s, n.t, Tail(le)) :
                     n \in {negate(
                              addConstraint(o.s,
                                [EmptyGate EXCEPT !.L = acc,
                                                  !.R = getCorrespondingTerm(scs, le[1]),
                                                  !.O = o.t]),
                              o.t)}}) :
                o \in {newTerm(scs, 1, <<>>)}})


----------------------------------------------------------------------------
(* Scans of a constraint *)

\* one loop of findUnsolvedVariable over le: found says whether an unsolved
\* internal variable was met, id is the last internal ID read (id0 if none)
RECURSIVE scanUnsolved(_, _, _)
scanUnsolved(le, solvedVariables, id0) ==
    IF Len(le) = 0
    THEN [found |-> FALSE, id |-> id0]
    ELSE IF le[1].vis # "Internal"
    THEN scanUnsolved(Tail(le), solvedVariables, id0)
    ELSE IF ~solvedVariables[le[1].vid + 1]
    THEN [found |-> TRUE, id |-> le[1].vid]
    ELSE scanUnsolved(Tail(le), solvedVariables, le[1].vid)

\* findUnsolvedVariable returns the variable to solve in the r1c:
\* pos = 0, 1, 2 for L, R, O
findUnsolvedVariable(r1c, solvedVariables) ==
    LET inL == scanUnsolved(r1c.L, solvedVariables, -1)
        inR == scanUnsolved(r1c.R, solvedVariables, inL.id)
        inO == scanUnsolved(r1c.O, solvedVariables, inR.id)
    IN  CASE inL.found -> [pos |-> 0, id |-> inL.id]
          [] inR.found -> [pos |-> 1, id |-> inR.id]
          [] inO.found -> [pos |-> 2, id |-> inO.id]
          [] OTHER     -> [pos |-> -1, id |-> inO.id]

IsInternal(t, id) == t.vis = "Internal" /\ t.vid = id

RECURSIVE Zeros(_)
Zeros(n) == IF n <= 0 THEN <<>> ELSE <<ZeroTerm>> \o Zeros(n - 1)

\* popInternalVariable returns l with the terms holding the id-th internal
\* variable removed, and the (last) removed term.  The result slice is made
\* with len(l)-1 entries: making it panics when l is empty, filling it
\* panics when no term is removed, and entries left unfilled stay zero.
popInternalVariable(l, id) ==
    LET kept == SelectSeq(l, LAMBDA v : ~IsInternal(v, id))
        hits == SelectSeq(l, LAMBDA v : IsInternal(v, id))
    IN  IF Len(l) = 0 \/ Len(hits) = 0
        THEN [l |-> <<>>, t |-> ZeroTerm, panic |-> TRUE]
        ELSE [l |-> kept \o Zeros(Len(l) - 1 - Len(kept)),
              t |-> hits[Len(hits)], panic |-> FALSE]

\* the test of popConstantTerm without the visibility
IsOneWireOfAnyVisibility(t) == t.vid = 0

IsOneWire(t) == t.vid = 0 /\ t.vis = "Public"

OneWirePositions(l) == {k \in 1..Len(l) : IsOneWire(l[k])}

\* popConstantTerm pops the first term on the ONE_WIRE: the reduced
\* expression and the value of the popped coefficient (0 when there is none)
popConstantTerm(coeffs, l) ==
    IF OneWirePositions(l) = {}
    THEN [l |-> l, c |-> 0]
    ELSE LET k == Min(OneWirePositions(l))
         IN  [l |-> SubSeq(l, 1, k - 1) \o SubSeq(l, k + 1, Len(l)),
              c |-> Coeff(coeffs, l[k].cid)]

----------------------------------------------------------------------------
(* What toSparseR1CS returns, and the receiver of the lowering methods      *)

NoReturn == [kind |-> "none", err |-> "nil", sys |-> <<>>]
Panic == [kind |-> "panic", err |-> "nil", sys |-> <<>>]
Failure(e) == [kind |-> "error", err |-> e, sys |-> <<>>]
Success(sys) == [kind |-> "ok", err |-> "nil", sys |-> <<sys>>]

\* the receiver scs of the lowering methods, as the pass holds it
Scs ==
    [coeffs |-> cs.coeffs, ccs |-> res.ccs, mCStoCCS |-> res.mCStoCCS,
     solvedVariables |-> res.solvedVariables, panic |-> FALSE]

\* what a lowering method leaves behind in the pass; a panic unwinds the pass
Lowered(scs) ==
    /\ cs' = [cs EXCEPT !.coeffs = scs.coeffs]
    /\ res' = [ccs |-> scs.ccs, mCStoCCS |-> scs.mCStoCCS,
               solvedVariables |-> scs.solvedVariables]
    /\ emitted' = Append(emitted, [c |-> Len(scs.ccs.Constraints),
                                   a |-> Len(scs.ccs.Assertions),
                                   solved |-> scs.solvedVariables])
    /\ IF scs.panic
       THEN pc' = "done" /\ ret' = Panic
       ELSE pc' = pc /\ ret' = ret

----------------------------------------------------------------------------
(* r1cToPlonkConstraintSingleOutput: the sixteen cases.  x is the record of *)
(* the locals [l, r, o, cL, cR, cO, cS, idCS]; a binding \E v \in {e} is  *)
(* the assignment v := e.                                                   *)

\* scs.solvedVariables[idCS] = true, after the case ran
markSolved(scs, idCS) ==
    Lowered([scs EXCEPT !.solvedVariables[idCS + 1] = TRUE])

CK(x) == x.cL * x.cR - x.cO

\* cL*cR = toSolve + cO
f1(scs, x) ==
    \E k \in {Intern(scs, CK(x))} :
    \E o \in {newTerm(k.s, 0 - x.cS, <<x.idCS>>)} :
    markSolved(addConstraint(o.s, [EmptyGate EXCEPT !.K = k.id, !.O = o.t]), x.idCS)

\* cL*(r + cR) = toSolve + cO
f2(scs, x) ==
    \E rt \in {split(scs, ZeroTerm, x.r)} :
    \E cRT \in {multiply(rt.s, rt.t, x.cL)} :
    \E k \in {Intern(cRT.s, CK(x))} :
    \E o \in {newTerm(k.s, 0 - x.cS, <<x.idCS>>)} :
    markSolved(addConstraint(o.s, [EmptyGate EXCEPT !.R = cRT.t, !.K = k.id, !.O = o.t]), x.idCS)

\* (l + cL)*cR = toSolve + cO
f3(scs, x) ==
    \E lt \in {split(scs, ZeroTerm, x.l)} :
    \E cRLT \in {multiply(lt.s, lt.t, x.cR)} :
    \E o \in {newTerm(cRLT.s, 0 - x.cS, <<x.idCS>>)} :
    \E k \in {Intern(o.s, CK(x))} :
    markSolved(addConstraint(k.s, [EmptyGate EXCEPT !.L = cRLT.t, !.O = o.t, !.K = k.id]), x.idCS)

\* (l + cL)*(r + cR) = toSolve + cO
f4(scs, x) ==
    \E lt \in {split(scs, ZeroTerm, x.l)} :
    \E rt \in {split(lt.s, ZeroTerm, x.r)} :
    \E cRLT \in {multiply(rt.s, lt.t, x.cR)} :
    \E cRT \in {multiply(cRLT.s, rt.t, x.cL)} :
    \E k \in {Intern(cRT.s, CK(x))} :
    \E o \in {newTerm(k.s, 0 - x.cS, <<x.idCS>>)} :
    markSolved(addConstraint(o.s, [EmptyGate EXCEPT !.L = cRLT.t, !.R = cRT.t,
        !.M = <<lt.t, rt.t>>,
        !.K = k.id, !.O = o.t]), x.idCS)

\* cL*cR = toSolve + o + cO
f5(scs, x) ==
    \E ot \in {split(scs, ZeroTerm, x.o)} :
    \E k \in {Intern(ot.s, 0 - CK(x))} :
    \E o \in {newTerm(k.s, 0 - x.cS, <<x.idCS>>)} :
    markSolved(addConstraint(o.s, [EmptyGate EXCEPT !.L = ot.t, !.K = k.id, !.O = o.t]), x.idCS)

\* cL*(r + cR) = toSolve + o + cO
f6(scs, x) ==
    \E rt \in {split(scs, ZeroTerm, x.r)} :
    \E ot \in {split(rt.s, ZeroTerm, x.o)} :
    \E cRT \in {multiply(ot.s, rt.t, x.cL)} :
    \E n \in {negate(cRT.s, ot.t)} :
    \E k \in {Intern(n.s, 0 - CK(x))} :
    \E o \in {newTerm(k.s, 0 - x.cS, <<x.idCS>>)} :
    markSolved(addConstraint(o.s, [EmptyGate EXCEPT !.L = n.t, !.R = cRT.t,
        !.K = k.id, !.O = o.t]), x.idCS)

\* (l + cL)*cR = toSolve + o + cO
f7(scs, x) ==
    \E lt \in {split(scs, ZeroTerm, x.l)} :
    \E ot \in {split(lt.s, ZeroTerm, x.o)} :
    \E cRLT \in {multiply(ot.s, lt.t, x.cR)} :
    \E n \in {negate(cRLT.s, ot.t)} :
    \E k \in {Intern(n.s, 0 - CK(x))} :
    \E o \in {newTerm(k.s, 0 - x.cS, <<x.idCS>>)} :
    markSolved(addConstraint(o.s, [EmptyGate EXCEPT !.R = n.t, !.L = cRLT.t,
        !.K = k.id, !.O = o.t]), x.idCS)

\* (l + cL)*(r + cR) = toSolve + o + cO
f8(scs, x) ==
    \E lt \in {split(scs, ZeroTerm, x.l)} :
    \E rt \in {split(lt.s, ZeroTerm, x.r)} :
    \E ot \in {split(rt.s, ZeroTerm, x.o)} :
    \E cRLT \in {multiply(ot.s, lt.t, x.cR)} :
    \E cRT \in {multiply(cRLT.s, rt.t, x.cL)} :
    \E u \in {newTerm(cRT.s, 1, <<>>)} :
    \E k \in {Intern(u.s, 0 - CK(x))} :
    \E s1 \in {addConstraint(k.s, [EmptyGate EXCEPT !.L = cRLT.t, !.R = cRT.t,
            !.M = <<lt.t, rt.t>>,
            !.K = k.id, !.O = u.t])} :
    \E o \in {newTerm(s1, x.cS, <<x.idCS>>)} :
    markSolved(addConstraint(o.s, [EmptyGate EXCEPT !.L = u.t, !.R = ot.t, !.O = o.t]), x.idCS)

\* (toSolve + cL)*cR = cO
f9(scs, x) ==
    \E l \in {newTerm(scs, x.cS * x.cR, <<x.idCS>>)} :
    \E k \in {Intern(l.s, CK(x))} :
    markSolved(addConstraint(k.s, [EmptyGate EXCEPT !.L = l.t, !.K = k.id]), x.idCS)

\* (toSolve + cL)*(r + cR) = cO
f10(scs, x) ==
    \E rs \in {newTerm(scs, x.cS, <<x.idCS>>)} :
    \E rt \in {split(rs.s, ZeroTerm, x.r)} :
    \E cRT \in {multiply(rt.s, rt.t, x.cL)} :
    \E cRes \in {multiply(cRT.s, rs.t, x.cR)} :
    \E k \in {Intern(cRes.s, CK(x))} :
    markSolved(addConstraint(k.s, [EmptyGate EXCEPT !.L = cRes.t, !.R = cRT.t,
        !.M = <<rs.t, rt.t>>, !.K = k.id]), x.idCS)

\* (toSolve + l + cL)*cR = cO
f11(scs, x) ==
    \E lt \in {split(scs, ZeroTerm, x.l)} :
    \E clt \in {multiply(lt.s, lt.t, x.cR)} :
    \E l \in {newTerm(clt.s, x.cS * x.cR, <<x.idCS>>)} :
    \E k \in {Intern(l.s, CK(x))} :
    markSolved(addConstraint(k.s, [EmptyGate EXCEPT !.L = l.t, !.R = clt.t, !.K = k.id]), x.idCS)

\* (toSolve + l + cL)*(r + cR) = cO
f12(scs, x) ==
    \E u \in {newTerm(scs, 1, <<>>)} :
    \E lt \in {split(u.s, ZeroTerm, x.l)} :
    \E rt \in {split(lt.s, ZeroTerm, x.r)} :
    \E cRLT \in {multiply(rt.s, lt.t, x.cR)} :
    \E cRT \in {multiply(cRLT.s, rt.t, x.cL)} :
    \E k \in {Intern(cRT.s, CK(x))} :
    \E s1 \in {addConstraint(k.s, [EmptyGate EXCEPT !.L = cRLT.t, !.R = cRT.t,
            !.M = <<lt.t, rt.t>>,
            !.O = u.t, !.K = k.id])} :
    \E rs \in {newTerm(s1, x.cS, <<x.idCS>>)} :
    \E cRes \in {multiply(rs.s, rs.t, x.cR)} :
    \E n \in {negate(cRes.s, u.t)} :
    markSolved(addConstraint(n.s, [EmptyGate EXCEPT !.R = cRes.t, !.M = <<rs.t, rt.t>>,
        !.O = n.t]), x.idCS)

\* (toSolve + cL)*cR = o + cO
f13(scs, x) ==
    \E ot \in {split(scs, ZeroTerm, x.o)} :
    \E l \in {newTerm(ot.s, x.cS * x.cR, <<x.idCS>>)} :
    \E n \in {negate(l.s, ot.t)} :
    \E k \in {Intern(n.s, CK(x))} :
    markSolved(addConstraint(k.s, [EmptyGate EXCEPT !.L = l.t, !.O = n.t, !.K = k.id]), x.idCS)

\* (toSolve + cL)*(r + cR) = o + cO
f14(scs, x) ==
    \E ot \in {split(scs, ZeroTerm, x.o)} :
    \E rs \in {newTerm(ot.s, x.cS, <<x.idCS>>)} :
    \E rt \in {split(rs.s, ZeroTerm, x.r)} :
    \E cRes \in {multiply(rt.s, rs.t, x.cR)} :
    \E cRT \in {multiply(cRes.s, rt.t, x.cL)} :
    \E n \in {negate(cRT.s, ot.t)} :
    \E k \in {Intern(n.s, CK(x))} :
    markSolved(addConstraint(k.s, [EmptyGate EXCEPT !.L = cRes.t, !.R = cRT.t,
        !.M = <<rs.t, rt.t>>,
        !.O = n.t, !.K = k.id]), x.idCS)

\* (toSolve + l + cL)*cR = o + cO
f15(scs, x) ==
    \E ot \in {split(scs, ZeroTerm, x.o)} :
    \E lt \in {split(ot.s, ZeroTerm, x.l)} :
    \E l \in {newTerm(lt.s, x.cS * x.cR, <<x.idCS>>)} :
    \E clt \in {multiply(l.s, lt.t, x.cR)} :
    \E n \in {negate(clt.s, ot.t)} :
    \E k \in {Intern(n.s, CK(x))} :
    markSolved(addConstraint(k.s, [EmptyGate EXCEPT !.L = l.t, !.R = clt.t,
        !.O = n.t, !.K = k.id]), x.idCS)

\* case 0111 lowered as case 0011: o is left out
f16WithoutO(scs, x) == f12(scs, x)

\* (toSolve + l + cL)*(r + cR) = o + cO
f16(scs, x) ==
    \E u \in {newTerm(scs, 1, <<>>)} :
    \E lt \in {split(u.s, ZeroTerm, x.l)} :
    \E rt \in {split(lt.s, ZeroTerm, x.r)} :
    \E cRLT \in {multiply(rt.s, lt.t, x.cR)} :
    \E cRT \in {multiply(cRLT.s, rt.t, x.cL)} :
    \E k \in {Intern(cRT.s, CK(x))} :
    \E s1 \in {addConstraint(k.s, [EmptyGate EXCEPT !.L = cRLT.t, !.R = cRT.t,
            !.M = <<lt.t, rt.t>>,
            !.O = u.t, !.K = k.id])} :
    \E v \in {newTerm(s1, 1, <<>>)} :
    \E ot \in {split(v.s, ZeroTerm, x.o)} :
    \E s2 \in {addConstraint(ot.s, [EmptyGate EXCEPT !.L = u.t, !.R = ot.t,
            !.O = v.t])} :
    \E rs \in {newTerm(s2, x.cS, <<x.idCS>>)} :
    \E cRes \in {multiply(rs.s, rs.t, x.cR)} :
    markSolved(addConstraint(cRes.s, [EmptyGate EXCEPT !.R = cRes.t,
        !.M = <<rs.t, rt.t>>, !.O = v.t]), x.idCS)

\* the 4-bit case index [toSolve in O, o non-empty, l non-empty, r non-empty]
caseIndex(lro, l, r, o) ==
    (IF lro # 0 THEN 8 ELSE 0) + (IF Len(o) # 0 THEN 4 ELSE 0)
      + (IF Len(l) # 0 THEN 2 ELSE 0) + (IF Len(r) # 0 THEN 1 ELSE 0)

caseSwitch(scs, s, x) ==
    CASE s = 0  -> f9(scs, x)
      [] s = 1  -> f10(scs, x)
      [] s = 2  -> f11(scs, x)
      [] s = 3  -> f12(scs, x)
      [] s = 4  -> f13(scs, x)
      [] s = 5  -> f14(scs, x)
      [] s = 6  -> f15(scs, x)
      [] s = 7  -> f16(scs, x)
      [] s = 8  -> f1(scs, x)
      [] s = 9  -> f2(scs, x)
      [] s = 10 -> f3(scs, x)
      [] s = 11 -> f4(scs, x)
      [] s = 12 -> f5(scs, x)
      [] s = 13 -> f6(scs, x)
      [] s = 14 -> f7(scs, x)
      [] s = 15 -> f8(scs, x)

\* the locals before the case switch, from what the scan and the pops gave
singleOutputLocals(scs, found, lro, l0, r0, o0, pop) ==
    [lro |-> lro, idCS |-> found.id, toSolve |-> pop.t,
     l |-> IF lro = 0 THEN pop.l ELSE l0.l,
     r |-> r0.l,
     o |-> IF lro = 0 THEN o0.l ELSE pop.l,
     cL |-> l0.c, cR |-> r0.c, cO |-> o0.c,
     cS |-> Coeff(scs.coeffs, pop.t.cid)]

r1cToPlonkConstraintSingleOutput(scs, r1c) ==
    \E found \in {findUnsolvedVariable(r1c, scs.solvedVariables)} :
    \E lro \in {IF found.pos = 1 THEN 0 ELSE found.pos} :
    \E l0 \in {popConstantTerm(scs.coeffs, IF found.pos = 1 THEN r1c.R ELSE r1c.L)} :
    \E r0 \in {popConstantTerm(scs.coeffs, IF found.pos = 1 THEN r1c.L ELSE r1c.R)} :
    \E o0 \in {popConstantTerm(scs.coeffs, r1c.O)} :
    \E pop \in {popInternalVariable(IF lro = 0 THEN l0.l ELSE o0.l, found.id)} :
    IF pop.panic
    THEN Lowered([scs EXCEPT !.panic = TRUE])
    ELSE \E x \in {singleOutputLocals(scs, found, lro, l0, r0, o0, pop)} :
         caseSwitch(scs, caseIndex(x.lro, x.l, x.r, x.o), x)

----------------------------------------------------------------------------
(* r1cToPlonkConstraintBinary *)

\* the bit scan without its test of the coefficient: the first term left
bitPositionsAny(scs, binDec, acc) == 1..Len(binDec)

\* positions of binDec whose coefficient equals acc
bitPositions(scs, binDec, acc) ==
    {k \in 1..Len(binDec) : Coeff(scs.coeffs, binDec[k].cid) = acc}

\* the inner scan of the bit loop: the first term of binDec with coefficient
\* acc gets ri as its CS -> CCS entry, is marked solved and leaves binDec.
\* Indexing the two slices with the term's variable ID panics past their end.
recordBit(scs, binDec, acc, ri) ==
    IF bitPositions(scs, binDec, acc) = {}
    THEN [s |-> scs, binDec |-> binDec]
    ELSE LET k == Min(bitPositions(scs, binDec, acc))
             t == binDec[k]
         IN  IF t.vid >= Len(scs.mCStoCCS)
             THEN [s |-> [scs EXCEPT !.panic = TRUE], binDec |-> binDec]
             ELSE [s |-> [scs EXCEPT !.mCStoCCS[t.vid + 1] = ri.vid,
                                     !.solvedVariables[t.vid + 1] = TRUE],
                   binDec |-> SubSeq(binDec, 1, k - 1)
                                \o SubSeq(binDec, k + 1, Len(binDec))]

\* the gate of one iteration without its Solver field
bitGateUntagged(scs, qn, ri, qi) ==
    The({The({addConstraint(o.s, [EmptyGate EXCEPT !.L = l.t, !.R = ri, !.O = o.t]) :
                o \in {negate(l.s, qi)}}) :
           l \in {multiply(scs, qn, 2)}})

\* the gate of one iteration: 2*q[i+1] + ri - q[i] = 0
bitGate(scs, qn, ri, qi) ==
    The({The({addConstraint(o.s, [EmptyGate EXCEPT !.L = l.t, !.R = ri, !.O = o.t,
                                                   !.Solver = "BinaryDec"]) :
                o \in {negate(l.s, qi)}}) :
           l \in {multiply(scs, qn, 2)}})

\* the last n iterations of the bit loop: accRi[i] and accQi[i+1] are made,
\* the bit is recorded, the gate is added; qi is accQi[i], acc is 2^i
RECURSIVE bitLoop(_, _, _, _, _)
bitLoop(scs, binDec, qi, acc, n) ==
    IF n = 0 \/ scs.panic
    THEN scs
    ELSE The({The({The({
           IF rec.s.panic THEN rec.s
           ELSE bitLoop(bitGate(rec.s, qn.t, ri.t, qi), rec.binDec, qn.t,
                        acc * 2, n - 1) :
             rec \in {recordBit(qn.s, binDec, acc, ri.t)}}) :
             qn \in {newTerm(ri.s, 1, <<>>)}}) :
             ri \in {newTerm(scs, 1, <<>>)}})

\* the reduction of r1c.O to the single term ot = accQi[0]
reduceO(scs, r1c) ==
    LET o0  == popConstantTerm(scs.coeffs, r1c.O)
        cO  == Intern(scs, o0.c)
    IN  IF Len(o0.l) = 0
        THEN LET ot == newTerm(cO.s, 1, <<>>)
                 n  == negate(ot.s, ot.t)
             IN  [s |-> addConstraint(n.s, [EmptyGate EXCEPT !.L = n.t, !.K = cO.id]),
                  t |-> ot.t]
        ELSE LET ot == split(cO.s, ZeroTerm, o0.l)
             IN  IF cO.id # 0
                 THEN LET nt == newTerm(ot.s, 1, <<>>)
                          n  == negate(nt.s, nt.t)
                      IN  [s |-> addConstraint(n.s, [EmptyGate EXCEPT !.L = ot.t,
                                                                     !.O = n.t,
                                                                     !.K = cO.id]),
                           t |-> nt.t]
                 ELSE ot

r1cToPlonkConstraintBinary(scs, r1c) ==
    \E ot \in {reduceO(scs, r1c)} :
    Lowered(bitLoop(ot.s, r1c.L, ot.t, 1, Len(r1c.L)))

r1cToSparseR1C(scs, r1c) ==
    IF r1c.Solver = "SingleOutput"
    THEN r1cToPlonkConstraintSingleOutput(scs, r1c)
    ELSE r1cToPlonkConstraintBinary(scs, r1c)

----------------------------------------------------------------------------
(* splitR1C: an assertion (l + cL)*(r + cR) = o + cO *)

\* cL*cR = cO
a000(scs, x) ==
    \E k \in {Intern(scs, CK(x))} :
    Lowered(recordAssertion(k.s, [EmptyGate EXCEPT !.K = k.id]))

\* cL*(r + cR) = cO
a001(scs, x) ==
    \E rt \in {split(scs, ZeroTerm, x.r)} :
    \E crt \in {multiply(rt.s, rt.t, x.cL)} :
    \E k \in {Intern(crt.s, CK(x))} :
    Lowered(recordAssertion(k.s, [EmptyGate EXCEPT !.R = crt.t, !.K = k.id]))

\* (l + cL)*cR = cO
a010(scs, x) ==
    \E lt \in {split(scs, ZeroTerm, x.l)} :
    \E cRLT \in {multiply(lt.s, lt.t, x.cR)} :
    \E k \in {Intern(cRLT.s, CK(x))} :
    Lowered(recordAssertion(k.s, [EmptyGate EXCEPT !.L = cRLT.t, !.K = k.id]))

\* (l + cL)*(r + cR) = cO
a011(scs, x) ==
    \E lt \in {split(scs, ZeroTerm, x.l)} :
    \E rt \in {split(lt.s, ZeroTerm, x.r)} :
    \E cRLT \in {multiply(rt.s, lt.t, x.cR)} :
    \E cRT \in {multiply(cRLT.s, rt.t, x.cL)} :
    \E k \in {Intern(cRT.s, CK(x))} :
    Lowered(recordAssertion(k.s, [EmptyGate EXCEPT !.L = cRLT.t, !.R = cRT.t,
        !.M = <<lt.t, rt.t>>, !.K = k.id]))

\* cL*cR = o + cO
a100(scs, x) ==
    \E ot \in {split(scs, ZeroTerm, x.o)} :
    \E k \in {Intern(ot.s, CK(x))} :
    \E n \in {negate(k.s, ot.t)} :
    Lowered(recordAssertion(n.s, [EmptyGate EXCEPT !.K = k.id, !.O = n.t]))

\* cL*(r + cR) = o + cO
a101(scs, x) ==
    \E rt \in {split(scs, ZeroTerm, x.r)} :
    \E ot \in {split(rt.s, ZeroTerm, x.o)} :
    \E cRT \in {multiply(ot.s, rt.t, x.cL)} :
    \E k \in {Intern(cRT.s, CK(x))} :
    \E n \in {negate(k.s, ot.t)} :
    Lowered(recordAssertion(n.s, [EmptyGate EXCEPT !.R = cRT.t, !.K = k.id, !.O = n.t]))

\* (l + cL)*cR = o + cO
a110(scs, x) ==
    \E lt \in {split(scs, ZeroTerm, x.l)} :
    \E ot \in {split(lt.s, ZeroTerm, x.o)} :
    \E cRLT \in {multiply(ot.s, lt.t, x.cR)} :
    \E k \in {Intern(cRLT.s, CK(x))} :
    \E n \in {negate(k.s, ot.t)} :
    Lowered(recordAssertion(n.s, [EmptyGate EXCEPT !.L = cRLT.t, !.K = k.id, !.O = n.t]))

\* (l + cL)*(r + cR) = o + cO
a111(scs, x) ==
    \E lt \in {split(scs, ZeroTerm, x.l)} :
    \E rt \in {split(lt.s, ZeroTerm, x.r)} :
    \E ot \in {split(rt.s, ZeroTerm, x.o)} :
    \E cRT \in {multiply(ot.s, rt.t, x.cL)} :
    \E cRLT \in {multiply(cRT.s, lt.t, x.cR)} :
    \E k \in {Intern(cRLT.s, CK(x))} :
    \E n \in {negate(k.s, ot.t)} :
    Lowered(addConstraint(n.s, [EmptyGate EXCEPT !.L = cRLT.t, !.R = cRT.t,
        !.M = <<lt.t, rt.t>>,
        !.K = k.id, !.O = n.t]))

splitR1C(scs, r1c) ==
    \E l0 \in {popConstantTerm(scs.coeffs, r1c.L)} :
    \E r0 \in {popConstantTerm(scs.coeffs, r1c.R)} :
    \E o0 \in {popConstantTerm(scs.coeffs, r1c.O)} :
    \E x \in {[l |-> l0.l, r |-> r0.l, o |-> o0.l,
                cL |-> l0.c, cR |-> r0.c, cO |-> o0.c]} :
        IF Len(x.o) = 0
        THEN IF Len(x.l) = 0
             THEN IF Len(x.r) = 0 THEN a000(scs, x) ELSE a001(scs, x)
             ELSE IF Len(x.r) = 0 THEN a010(scs, x) ELSE a011(scs, x)
        ELSE IF Len(x.l) = 0
             THEN IF Len(x.r) = 0 THEN a100(scs, x) ELSE a101(scs, x)
             ELSE IF Len(x.r) = 0 THEN a110(scs, x) ELSE a111(scs, x)

----------------------------------------------------------------------------
(* The final renumbering: [public | secret | internal] *)

\* offsetIDTerm without its case compiled.Internal
offsetIDTermSkipsInternal(t, ccs) ==
    IF t = ZeroTerm THEN [t |-> t, err |-> "nil"]
    ELSE CASE t.vis = "Public" ->
                IF t.vid - 1 < 0 THEN [t |-> t, err |-> "panic"]
                ELSE [t |-> SetVariableID(t, t.vid - 1), err |-> "nil"]
           [] t.vis = "Secret" ->
                [t |-> SetVariableID(t, t.vid + ccs.NbPublicVariables), err |-> "nil"]
           [] t.vis = "Internal" -> [t |-> t, err |-> "nil"]
           [] t.vis = "Unset" -> [t |-> t, err |-> "ErrInputNotSet"]

\* offsetIDTerm: [t |-> the term afterwards, err |-> "nil", ErrInputNotSet or
\* "panic"]; SetVariableID panics on an ID that does not fit its field
offsetIDTerm(t, ccs) ==
    IF t = ZeroTerm THEN [t |-> t, err |-> "nil"]
    ELSE CASE t.vis = "Public" ->
                IF t.vid - 1 < 0 THEN [t |-> t, err |-> "panic"]
                ELSE [t |-> SetVariableID(t, t.vid - 1), err |-> "nil"]
           [] t.vis = "Secret" ->
                [t |-> SetVariableID(t, t.vid + ccs.NbPublicVariables), err |-> "nil"]
           [] t.vis = "Internal" ->
                [t |-> SetVariableID(t, t.vid + ccs.NbPublicVariables
                                              + ccs.NbSecretVariables),
                 err |-> "nil"]
           [] t.vis = "Unset" -> [t |-> t, err |-> "ErrInputNotSet"]

\* the first half of offsetIDs: ensure that L = M[0] and R = M[1] (up to
\* scalar multiplication)
pairLM(exp) ==
    LET e1 == IF exp.L.cid = 0
              THEN IF exp.M[1] # ZeroTerm
                   THEN [exp EXCEPT !.L = SetCoeffID(exp.M[1], 0)] ELSE exp
              ELSE IF exp.M[1].cid = 0
                   THEN [exp EXCEPT !.M[1] = SetCoeffID(exp.L, 0)] ELSE exp
        e2 == IF e1.R.cid = 0
              THEN IF e1.M[2] # ZeroTerm
                   THEN [e1 EXCEPT !.R = SetCoeffID(e1.M[2], 0)] ELSE e1
              ELSE IF e1.M[2].cid = 0
                   THEN [e1 EXCEPT !.M[2] = SetCoeffID(e1.R, 0)] ELSE e1
    IN  e2

\* offsetIDs on one gate: the terms are offset in the order L, R, O, M[0],
\* M[1] and the first error returns, leaving the later terms as they were
offsetTerms(e, tL, tR, tO, t0, t1) ==
    CASE tL.err # "nil" ->
            [exp |-> [e EXCEPT !.L = tL.t], err |-> tL.err]
      [] tR.err # "nil" ->
            [exp |-> [e EXCEPT !.L = tL.t, !.R = tR.t], err |-> tR.err]
      [] tO.err # "nil" ->
            [exp |-> [e EXCEPT !.L = tL.t, !.R = tR.t, !.O = tO.t], err |-> tO.err]
      [] t0.err # "nil" ->
            [exp |-> [e EXCEPT !.L = tL.t, !.R = tR.t, !.O = tO.t, !.M[1] = t0.t],
             err |-> t0.err]
      [] OTHER ->
            [exp |-> [e EXCEPT !.L = tL.t, !.R = tR.t, !.O = tO.t, !.M[1] = t0.t,
                               !.M[2] = t1.t],
             err |-> t1.err]

offsetPaired(e, ccs) ==
    offsetTerms(e, offsetIDTerm(e.L, ccs), offsetIDTerm(e.R, ccs),
                offsetIDTerm(e.O, ccs), offsetIDTerm(e.M[1], ccs),
                offsetIDTerm(e.M[2], ccs))

offsetIDs(exp, ccs) == offsetPaired(pairLM(exp), ccs)

\* the loop of offsetIDs over a slice of gates, from index k on
RECURSIVE offsetAll(_, _, _)
offsetAll(gates, k, ccs) ==
    IF k > Len(gates)
    THEN [gates |-> gates, err |-> "nil"]
    ELSE The({IF g.err # "nil"
              THEN [gates |-> [gates EXCEPT ![k] = g.exp], err |-> g.err]
              ELSE offsetAll([gates EXCEPT ![k] = g.exp], k + 1, ccs) :
                g \in {offsetIDs(gates[k], ccs)}})

\* one entry of a log's ToResolve
logIndex(t, r) ==
    CASE t.vis = "Public"   -> [v |-> t.vid - 1, err |-> "nil"]
      [] t.vis = "Secret"   -> [v |-> t.vid + r.ccs.NbPublicVariables, err |-> "nil"]
      [] t.vis = "Internal" ->
            IF t.vid >= Len(r.mCStoCCS) THEN [v |-> 0, err |-> "panic"]
            ELSE [v |-> r.mCStoCCS[t.vid + 1] + r.ccs.NbSecretVariables
                          + r.ccs.NbPublicVariables,
                  err |-> "nil"]
      [] t.vis = "Unset"    -> [v |-> 0, err |-> "panic"]

\* the log loop's entry for one input log
logEntry(log, r) ==
    [Format |-> log.format,
     ToResolve |-> [k \in 1..Len(log.toResolve) |-> logIndex(log.toResolve[k], r).v]]

logPanics(log, r) ==
    \E k \in 1..Len(log.toResolve) : logIndex(log.toResolve[k], r).err = "panic"

----------------------------------------------------------------------------
(* The inputs: constraint systems as the frontend hands them over.  Every   *)
(* term names a declared variable and a coefficient of the input pool, and  *)
(* the ONE_WIRE occurs at most once in a linear expression.                 *)

RECURSIVE Pow2(_)
Pow2(n) == IF n <= 0 THEN 1 ELSE 2 * Pow2(n - 1)

\* the input pool: the reserved entries, then the larger powers of two
InputCoeffs == <<0, 1, -1, 2>> \o [k \in 1..(MaxBits - 1) |-> Pow2(k + 1)]

CID(c) == Min(PoolHits(InputCoeffs, c)) - 1

T(c, v, visibility) == Pack(v, CID(c), visibility)

ONE(c) == T(c, 0, "Public")
Y == T(1, 1, "Public")
S == T(1, 0, "Secret")
X(k) == T(1, k, "Internal")
\* a variable the circuit never set: Unset visibility
U == T(1, 0, "Unset")

\* the k-th term of the variable part of a generated expression; side is 0,
\* 1, 2 for L, R, O; with useX the first term is the internal variable 0
RestTerm(side, k, useX) ==
    LET n == (side + k) % 3
    IN  IF useX /\ k = 1 THEN T(IF side = 1 THEN 2 ELSE 1, 0, "Internal")
        ELSE CASE n = 0 -> T(1, 0, "Secret")
               [] n = 1 -> T(2, 1, "Public")
               [] n = 2 -> T(-1, 1, "Secret")

Rest(side, n, useX) == [k \in 1..n |-> RestTerm(side, k, useX)]

Const(c) == IF c = 0 THEN <<>> ELSE <<ONE(c)>>

R1C(l, r, o, solver) == [L |-> l, R |-> r, O |-> o, Solver |-> solver]

\* a constraint to solve for the internal variable tgt, met with coefficient
\* cS in L, R or O (pos 0, 1, 2); lens and consts give the three variable
\* parts' lengths and the three constants
SingleR1C(pos, lens, consts, cS, tgt, useX) ==
    LET t == T(cS, tgt, "Internal")
        e(side) == (IF pos = side THEN <<t>> ELSE <<>>)
                     \o Rest(side, lens[side + 1], useX) \o Const(consts[side + 1])
    IN  R1C(e(0), e(1), e(2), "SingleOutput")

AssertR1C(lens, consts, useX) ==
    LET e(side) == Rest(side, lens[side + 1], useX) \o Const(consts[side + 1])
    IN  R1C(e(0), e(1), e(2), "SingleOutput")

Lens == (0..MaxLen) \X (0..MaxLen) \X (0..MaxLen)

ConstTriples == {<<0, 0, 0>>, <<1, 1, 0>>, <<2, 1, 1>>, <<2, 0, 1>>, <<0, 2, 1>>}

Log(ts) == [format |-> "log", toResolve |-> ts]

CS(npub, nsec, nint, constraints, assertions, logs) ==
    [public |-> npub, secret |-> nsec, internal |-> nint,
     constraints |-> constraints, assertions |-> assertions,
     logs |-> logs, coeffs |-> InputCoeffs]

\* s*y = x0: solves the internal variable 0
SolveX0 == R1C(<<S>>, <<Y>>, <<X(0)>>, "SingleOutput")

\* one constraint, of every shape
SingleInputs ==
    {CS(2, 2, 1, <<SingleR1C(pos, lens, consts, cS, 0, FALSE)>>, <<>>,
        <<Log(<<Y, S, X(0)>>)>>) :
       pos \in 0..2, lens \in Lens, consts \in ConstTriples, cS \in {1, 2}}

\* a constraint over an internal variable that an earlier constraint solved
ChainInputs ==
    {CS(2, 2, 2, <<SolveX0, SingleR1C(pos, lens, <<1, 1, 0>>, 1, 1, TRUE)>>, <<>>,
        <<Log(<<X(1), X(0)>>)>>) :
       pos \in 0..2, lens \in Lens}

\* one assertion, of every shape, after a constraint
AssertInputs ==
    {CS(2, 2, 1, <<SolveX0>>, <<AssertR1C(lens, consts, TRUE)>>, <<>>) :
       lens \in Lens, consts \in ConstTriples}

\* the bits of a decomposition: bit k (coefficient 2^k) is the internal
\* variable k; "desc" lists the most significant bit first
Bits(n, order) ==
    [k \in 1..n |-> IF order = "asc" THEN T(Pow2(k - 1), k - 1, "Internal")
                                     ELSE T(Pow2(n - k), n - k, "Internal")]

\* L of a decomposition: well formed, or with a term whose coefficient is no
\* power of two, or with bit 0 met twice and the top bit missing, or with a
\* secret variable as a bit
BinaryL(n, order, form) ==
    CASE form = "ok"     -> Bits(n, order)
      [] form = "extra"  -> Bits(n, order) \o <<T(-1, n, "Internal")>>
      [] form = "dup"    -> Bits(n, order) \o <<T(1, n, "Internal")>>
      [] form = "secret" -> Bits(n, order) \o <<T(Pow2(n), 1, "Secret")>>

BinaryO(form) ==
    CASE form = "const"    -> <<ONE(2)>>
      [] form = "var"      -> <<S>>
      [] form = "varconst" -> <<S, ONE(1)>>
      [] form = "sum"      -> <<S, Y>>

BinaryInputs ==
    {CS(2, 2, n + 1, <<R1C(BinaryL(n, order, lform), <<ONE(1)>>, BinaryO(oform),
                          "BinaryDec")>>, <<>>, <<Log(<<X(0)>>)>>) :
       n \in 1..(MaxBits - 1), order \in {"asc", "desc"},
       lform \in {"ok", "extra", "dup", "secret"},
       oform \in {"const", "var", "varconst", "sum"}}
      \cup
    {CS(2, 2, MaxBits, <<R1C(Bits(MaxBits, order), <<ONE(1)>>, BinaryO(oform),
                            "BinaryDec")>>,
        <<AssertR1C(<<1, 1, 0>>, <<0, 0, 0>>, TRUE)>>, <<Log(<<X(0)>>)>>) :
       order \in {"asc", "desc"}, oform \in {"const", "var", "varconst", "sum"}}

\* constraints the frontend should not produce, and corner cases
SpecialConstraints ==
    { \* no internal variable at all
      <<R1C(<<S>>, <<Y>>, <<>>, "SingleOutput")>>,
      <<R1C(<<S>>, <<ONE(1)>>, <<Y>>, "SingleOutput")>>,
      \* every internal variable already solved
      <<SolveX0, R1C(<<S>>, <<ONE(1)>>, <<X(0)>>, "SingleOutput")>>,
      <<SolveX0, R1C(<<X(0)>>, <<ONE(1)>>, <<Y>>, "SingleOutput")>>,
      <<SolveX0, R1C(<<X(0)>>, <<S>>, <<>>, "SingleOutput")>>,
      \* the variable to solve met twice
      <<R1C(<<X(0)>>, <<X(0)>>, <<Y>>, "SingleOutput")>>,
      <<R1C(<<X(0), S>>, <<X(0), ONE(1)>>, <<Y>>, "SingleOutput")>>,
      <<R1C(<<X(0), S>>, <<X(0)>>, <<>>, "SingleOutput")>>,
      <<R1C(<<X(0), X(0)>>, <<ONE(1)>>, <<Y>>, "SingleOutput")>>,
      <<R1C(<<S>>, <<X(0)>>, <<X(0)>>, "SingleOutput")>>,
      \* a term with coefficient zero
      <<R1C(<<X(0), T(0, 1, "Secret")>>, <<ONE(1)>>, <<Y>>, "SingleOutput")>>,
      <<R1C(<<T(0, 1, "Secret")>>, <<Y>>, <<X(0)>>, "SingleOutput")>>,
      <<R1C(<<T(0, 0, "Internal")>>, <<ONE(1)>>, <<Y>>, "SingleOutput")>>,
      \* a variable that was never set
      <<R1C(<<U>>, <<ONE(1)>>, <<X(0)>>, "SingleOutput")>>,
      <<R1C(<<X(0)>>, <<U>>, <<Y>>, "SingleOutput")>>,
      <<R1C(<<S, T(2, 1, "Unset")>>, <<Y>>, <<X(0)>>, "SingleOutput")>>,
      \* the additive chain (a + b + c)*1 = d
      <<R1C(<<S, Y, T(1, 1, "Secret")>>, <<ONE(1)>>, <<X(0)>>, "SingleOutput")>>,
      \* nothing to lower
      <<>> }

SpecialAssertions ==
    { <<>>,
      \* an internal variable no constraint solves
      <<R1C(<<X(0)>>, <<ONE(1)>>, <<Y>>, "SingleOutput")>>,
      \* a variable that was never set
      <<R1C(<<U>>, <<S>>, <<Y>>, "SingleOutput")>> }

SpecialInputs ==
    {CS(2, 2, 1, c, a, <<Log(<<Y, S, X(0)>>)>>) :
       c \in SpecialConstraints, a \in SpecialAssertions}

\* logs of every kind behind one constraint
LogInputs ==
    {CS(2, 2, 2, <<SolveX0>>, <<>>, logs) :
       logs \in { <<>>,
                  <<Log(<<>>)>>,
                  <<Log(<<Y>>), Log(<<S, X(0)>>)>>,
                  <<Log(<<X(0), X(1)>>)>>,
                  <<Log(<<ONE(1)>>)>>,
                  <<Log(<<Y, U>>)>>,
                  <<Log(<<Y>>), Log(<<T(1, 1, "Unset")>>)>>,
                  <<Log(<<ZeroTerm>>)>> }}

\* the declared numbers of public and secret variables
CountInputs ==
    {CS(npub, nsec, 1, <<R1C(<<ONE(1)>>, <<ONE(2)>>, <<X(0)>>, "SingleOutput")>>,
        <<>>, <<Log(<<X(0)>>)>>) :
       npub \in 1..3, nsec \in 0..2}

Inputs ==
    SingleInputs \cup ChainInputs \cup AssertInputs \cup BinaryInputs
      \cup SpecialInputs \cup LogInputs \cup CountInputs

\* ecc.ID: the curves of the switch, UNKNOWN, and one the switch does not name
Curves ==
    {"BN254", "BLS12_377", "BLS12_381", "BW6_761", "BLS24_315", "BW6_633",
     "UNKNOWN", "BW6_672"}

Scenarios ==
    {[cs |-> c, curveID |-> "BN254"] : c \in Inputs}
      \cup {[cs |-> c, curveID |-> id] : c \in CountInputs, id \in Curves}

----------------------------------------------------------------------------
(* The witness: witness.go.  A Witness is a sequence of field elements,    *)
(* the integers 0..Modulus-1.  A byte takes ByteValues values and an        *)
(* element is encoded on ElementBytes bytes (fr.Limbs*8), most significant  *)
(* first, so that the length prefix keeps the width of a uint32 and some    *)
(* byte strings are no canonical encoding.                                  *)

\* the longest circuit: the number of its leaves
MaxWitness == 2

\* the number of values of a byte
ByteValues == 2

\* fr.Limbs*8: the bytes of an encoded element
ElementBytes == 3

\* var buf [4]byte: the bytes of the length prefix
PrefixBytes == 4

\* the field's modulus: below the number of byte strings of an element
Modulus == ByteValues ^ ElementBytes - 1

\* binary.BigEndian.PutUint32 and fr.Element.Bytes: n on width bytes, the
\* most significant first, the bits above the width dropped
BigEndian(n, width) ==
    [k \in 1..width |-> (n \div (ByteValues ^ (width - k))) % ByteValues]

\* binary.BigEndian.Uint32: the number a byte string holds
RECURSIVE Uint(_)
Uint(bs) ==
    IF Len(bs) = 0
    THEN 0
    ELSE Uint(SubSeq(bs, 1, Len(bs) - 1)) * ByteValues + bs[Len(bs)]

\* enc.Encode of one element: its canonical encoding
Encode(e) == BigEndian(e, ElementBytes)

\* dec.Decode of one element: the bytes' number, reduced
Decode(bs) == Uint(bs) % Modulus

\* make([]fr.Element, n)
RECURSIVE ZeroElements(_)
ZeroElements(n) == IF n <= 0 THEN <<>> ELSE <<0>> \o ZeroElements(n - 1)

\* what a writer that fails after room bytes lets WriteTo do.  binary.Write
\* puts the prefix in one Write and each Encode puts one element in one
\* Write; a Write that does not fit writes what fits and fails, and ends
\* the method: a failed prefix returns 0, a failed element the bytes written
RECURSIVE encodeLoop(_, _, _, _)
encodeLoop(wit, room, k, out) ==
    IF k > Len(wit)
    THEN [out |-> out, n |-> Len(out), err |-> "nil"]
    ELSE IF Len(out) + ElementBytes > room
    THEN [out |-> out \o SubSeq(Encode(wit[k]), 1, room - Len(out)),
          n |-> room, err |-> "short write"]
    ELSE encodeLoop(wit, room, k + 1, out \o Encode(wit[k]))

\* the bytes of uint32(len(*witness))
WriteToPrefix(wit) == BigEndian(Len(wit), PrefixBytes)

WriteTo(wit, room) ==
    IF room < PrefixBytes
    THEN [out |-> SubSeq(WriteToPrefix(wit), 1, room), n |-> 0, err |-> "short write"]
    ELSE encodeLoop(wit, room, 1, WriteToPrefix(wit))

\* io.ReadFull on a reader that runs out: io.EOF when no byte was read
ShortRead(read) == IF read = 0 THEN "EOF" ELSE "unexpected EOF"

\* the loop of LimitReadFrom over dec.Decode: lr is what the limited reader
\* still holds, read the decoder's BytesRead
RECURSIVE decodeLoop(_, _, _, _, _)
decodeLoop(wit, lr, k, sliceLen, read) ==
    IF k > sliceLen
    THEN [w |-> wit, n |-> read + PrefixBytes, err |-> "nil"]
    ELSE IF Len(lr) < ElementBytes
    THEN [w |-> wit, n |-> read + Len(lr) + PrefixBytes,
          err |-> ShortRead(Len(lr))]
    ELSE decodeLoop([wit EXCEPT ![k] = Decode(SubSeq(lr, 1, ElementBytes))],
                    SubSeq(lr, ElementBytes + 1, Len(lr)), k + 1, sliceLen,
                    read + ElementBytes)

\* io.LimitReader(r, n): the first n bytes of r
LimitReader(r, n) == SubSeq(r, 1, Min({Len(r), n}))

\* LimitReadFrom accepting any length prefix
LimitReadFromAnySize(sliceLen, expectedSize) == TRUE

\* int(sliceLen) != expectedSize
LimitReadFromSizeOK(sliceLen, expectedSize) == sliceLen = expectedSize

\* LimitReadFrom after the prefix was read and accepted: r is what follows
\* the prefix
LimitReadFromElements(wit, r, sliceLen, expectedSize) ==
    The({[w |-> dec.w, n |-> dec.n, err |-> dec.err,
          r |-> SubSeq(r, dec.n - PrefixBytes + 1, Len(r))] :
           dec \in {decodeLoop(IF Len(wit) # sliceLen THEN ZeroElements(sliceLen)
                                                       ELSE wit,
                               LimitReader(r, expectedSize * ElementBytes),
                               1, sliceLen, 0)}})

\* LimitReadFrom decodes a witness from the reader r into the receiver wit:
\* the witness, the bytes read, the error, and what the reader still holds
LimitReadFrom(wit, r, expectedSize) ==
    IF Len(r) < PrefixBytes
    THEN [w |-> wit, n |-> Len(r), err |-> ShortRead(Len(r)), r |-> <<>>]
    ELSE IF ~LimitReadFromSizeOK(Uint(SubSeq(r, 1, PrefixBytes)), expectedSize)
    THEN [w |-> wit, n |-> PrefixBytes, err |-> "invalid witness size",
          r |-> SubSeq(r, PrefixBytes + 1, Len(r))]
    ELSE LimitReadFromElements(wit, SubSeq(r, PrefixBytes + 1, Len(r)),
                               Uint(SubSeq(r, 1, PrefixBytes)), expectedSize)

\* a leaf of a circuit as parser.Visit hands it to the handler: its
\* visibility, whether a value was assigned to it ("assigned", "nil", or
\* "invalid" for a value SetInterface rejects), and the value
Leaf(visibility, set, val) == [vis |-> visibility, set |-> set, val |-> val]

\* count(w): the numbers of secret and public leaves
count(leaves) ==
    [nbSecret |-> Cardinality({k \in 1..Len(leaves) : leaves[k].vis = "Secret"}),
     nbPublic |-> Cardinality({k \in 1..Len(leaves) : leaves[k].vis = "Public"})]

\* the witness an assignment fills: the receiver cut to n elements, or a
\* new one when the receiver is shorter
sized(wit, n) == IF Len(wit) < n THEN ZeroElements(n) ELSE SubSeq(wit, 1, n)

\* the secret variables stored from index 0, as the public ones
secretOffsetZero(c) == 0

\* i = nbPublic // offset
secretOffset(c) == c.nbPublic

\* parser.Visit with the handler of FromFullAssignment, from leaf k on: i and
\* j are the indexes for the secret and the public variables
RECURSIVE collectFull(_, _, _, _, _)
collectFull(wit, leaves, k, ii, jj) ==
    IF k > Len(leaves)
    THEN [w |-> wit, err |-> "nil"]
    ELSE IF leaves[k].set = "nil"
    THEN [w |-> wit, err |-> "missing assignment"]
    ELSE IF leaves[k].vis \notin {"Secret", "Public"}
    THEN collectFull(wit, leaves, k + 1, ii, jj)
    ELSE IF leaves[k].set = "invalid"
    THEN [w |-> wit, err |-> "SetInterface"]
    ELSE IF leaves[k].vis = "Secret"
    THEN collectFull([wit EXCEPT ![ii + 1] = leaves[k].val % Modulus],
                     leaves, k + 1, ii + 1, jj)
    ELSE collectFull([wit EXCEPT ![jj + 1] = leaves[k].val % Modulus],
                     leaves, k + 1, ii, jj + 1)

\* FromFullAssignment extracts the full witness [ public | secret ]
FromFullAssignment(wit, leaves) ==
    The({collectFull(sized(wit, c.nbPublic + c.nbSecret), leaves, 1,
                     secretOffset(c), 0) : c \in {count(leaves)}})

\* if visibility == compiled.Public
publicOnly(leaf) == leaf.vis = "Public"

\* parser.Visit with the handler of FromPublicAssignment, from leaf k on
RECURSIVE collectPublic(_, _, _, _)
collectPublic(wit, leaves, k, jj) ==
    IF k > Len(leaves)
    THEN [w |-> wit, err |-> "nil"]
    ELSE IF ~publicOnly(leaves[k])
    THEN collectPublic(wit, leaves, k + 1, jj)
    ELSE IF leaves[k].set = "nil"
    THEN [w |-> wit, err |-> "missing assignment"]
    ELSE IF leaves[k].set = "invalid"
    THEN [w |-> wit, err |-> "SetInterface"]
    ELSE collectPublic([wit EXCEPT ![jj + 1] = leaves[k].val % Modulus],
                       leaves, k + 1, jj + 1)

\* FromPublicAssignment extracts the public part of the witness
FromPublicAssignment(wit, leaves) ==
    collectPublic(sized(wit, count(leaves).nbPublic), leaves, 1, 0)

\* a call, with its arguments, and what it returned
Call(op, recv, size, leaves, room) ==
    [op |-> op, recv |-> recv, size |-> size, leaves |-> leaves, room |-> room]

NoCall == Call("none", <<>>, 0, <<>>, 0)

Returns(n, err) == [n |-> n, err |-> err]

\* no circuit, and no witness written or read
NoWitness ==
    /\ circuit = <<>>
    /\ witness = <<>>
    /\ stream = <<>>
    /\ received = <<>>
    /\ call = NoCall
    /\ result = Returns(0, "nil")

----------------------------------------------------------------------------
(* toSparseR1CS *)

EmptyLogEntry == [Format |-> "", ToResolve |-> <<>>]

\* the same with NbPublicVariables: cs.public.size, the ONE_WIRE counted
newSparseR1CSCountsOneWire(c) ==
    [ccs |-> [NbPublicVariables |-> c.public,
              NbSecretVariables |-> c.secret,
              NbInternalVariables |-> 0,
              Constraints |-> <<>>,
              Assertions |-> <<>>,
              Logs |-> [k \in 1..Len(c.logs) |-> EmptyLogEntry]],
     mCStoCCS |-> [k \in 1..c.internal |-> 0],
     solvedVariables |-> [k \in 1..c.internal |-> FALSE]]

\* res := sparseR1CS{...}
newSparseR1CS(c) ==
    [ccs |-> [NbPublicVariables |-> c.public - 1,
              NbSecretVariables |-> c.secret,
              NbInternalVariables |-> 0,
              Constraints |-> <<>>,
              Assertions |-> <<>>,
              Logs |-> [k \in 1..Len(c.logs) |-> EmptyLogEntry]],
     mCStoCCS |-> [k \in 1..c.internal |-> 0],
     solvedVariables |-> [k \in 1..c.internal |-> FALSE]]

Init ==
    /\ \E sc \in Scenarios : cs = sc.cs /\ curveID = sc.curveID
    /\ pc = "lower"
    /\ i = 0
    /\ j = 0
    /\ res = newSparseR1CS(cs)
    /\ emitted = <<>>
    /\ ret = NoReturn
    /\ NoWitness

\* one iteration of the loop over cs.constraints
LowerConstraint ==
    /\ pc = "lower"
    /\ i < Len(cs.constraints)
    /\ r1cToSparseR1C(Scs, cs.constraints[i + 1])
    /\ i' = i + 1
    /\ UNCHANGED <<curveID, j>>
    /\ UNCHANGED wvars

\* one iteration of the loop over cs.assertions
LowerAssertion ==
    /\ pc = "lower"
    /\ i = Len(cs.constraints)
    /\ j < Len(cs.assertions)
    /\ splitR1C(Scs, cs.assertions[j + 1])
    /\ j' = j + 1
    /\ UNCHANGED <<curveID, i>>
    /\ UNCHANGED wvars

Returned(e) == IF e = "panic" THEN Panic ELSE Failure(e)

\* the loop of offsetIDs over res.ccs.Constraints
OffsetConstraints ==
    /\ pc = "lower"
    /\ i = Len(cs.constraints)
    /\ j = Len(cs.assertions)
    /\ \E done \in {offsetAll(res.ccs.Constraints, 1, res.ccs)} :
           /\ res' = [res EXCEPT !.ccs.Constraints = done.gates]
           /\ IF done.err = "nil"
              THEN pc' = "offsetAssertions" /\ ret' = ret
              ELSE pc' = "done" /\ ret' = Returned(done.err)
    /\ UNCHANGED <<cs, curveID, i, j, emitted>>
    /\ UNCHANGED wvars

\* the loop of offsetIDs over res.ccs.Assertions
OffsetAssertions ==
    /\ pc = "offsetAssertions"
    /\ \E done \in {offsetAll(res.ccs.Assertions, 1, res.ccs)} :
           /\ res' = [res EXCEPT !.ccs.Assertions = done.gates]
           /\ IF done.err = "nil"
              THEN pc' = "logs" /\ ret' = ret
              ELSE pc' = "done" /\ ret' = Returned(done.err)
    /\ UNCHANGED <<cs, curveID, i, j, emitted>>
    /\ UNCHANGED wvars

\* the first log the loop panics on (0: none)
firstPanic(logs, r) ==
    IF \E k \in 1..Len(logs) : logPanics(logs[k], r)
    THEN Min({k \in 1..Len(logs) : logPanics(logs[k], r)})
    ELSE 0

\* offset IDs in the logs: the entries before a panic are stored
OffsetLogs ==
    /\ pc = "logs"
    /\ \E p \in {firstPanic(cs.logs, res)} :
           /\ res' = [res EXCEPT !.ccs.Logs =
                        [k \in 1..Len(cs.logs) |->
                           IF p = 0 \/ k < p THEN logEntry(cs.logs[k], res)
                                             ELSE res.ccs.Logs[k]]]
           /\ IF p = 0
              THEN pc' = "curve" /\ ret' = ret
              ELSE pc' = "done" /\ ret' = Panic
    /\ UNCHANGED <<cs, curveID, i, j, emitted>>
    /\ UNCHANGED wvars

\* the backend NewSparseR1CS(ccs, coeffs) builds for a curve
NewSparseR1CS(id, ccs, coeffs) == [curve |-> id, ccs |-> ccs, coeffs |-> coeffs]

\* switch curveID.  The source holds an unresolved merge of two versions of
\* the switch: side "HEAD" has the cases BLS24_315 and BW6_633, side "master"
\* has BLS24_315 only.
curveSwitch(id, side) ==
    CASE id \in {"BLS12_377", "BLS12_381", "BN254", "BW6_761", "BLS24_315"} ->
            Success(NewSparseR1CS(id, res.ccs, cs.coeffs))
      [] id = "BW6_633" /\ side = "HEAD" ->
            Success(NewSparseR1CS(id, res.ccs, cs.coeffs))
      [] id = "UNKNOWN" ->
            Success(NewSparseR1CS(id, res.ccs, <<>>))
      [] OTHER -> Panic

Dispatch ==
    /\ pc = "curve"
    /\ \E side \in {"HEAD", "master"} : ret' = curveSwitch(curveID, side)
    /\ pc' = "done"
    /\ UNCHANGED <<cs, curveID, i, j, res, emitted>>
    /\ UNCHANGED wvars

Next ==
    \/ LowerConstraint
    \/ LowerAssertion
    \/ OffsetConstraints
    \/ OffsetAssertions
    \/ OffsetLogs
    \/ Dispatch

Spec == Init /\ [][Next]_vars

----------------------------------------------------------------------------
(* The witness pipeline: a circuit is compiled, an assignment of it fills a *)
(* Witness, WriteTo encodes the Witness to a stream, and LimitReadFrom,     *)
(* ReadAndProve or ReadAndVerify decode the stream.                         *)

lvars == <<cs, curveID, pc, i, j, res, emitted, ret>>

\* the circuits: the visibilities of up to MaxWitness leaves, in the order
\* parser.Visit meets them
Circuits ==
    UNION {[1..n -> {"Public", "Secret"}] : n \in 0..MaxWitness}

\* the assignments of a circuit: each leaf assigned, left without a value,
\* or assigned a value SetInterface rejects; leaf k, when assigned, holds
\* the integer Modulus + k, which SetInterface reduces to k
AssignmentsOf(c) ==
    {[k \in 1..Len(c) |-> Leaf(c[k], st[k], Modulus + k)] :
       st \in [1..Len(c) -> {"assigned", "nil", "invalid"}]}

\* the receivers of an assignment or a read: a new Witness, or one that an
\* earlier use left longer than any witness of the circuit
Stale == [k \in 1..(MaxWitness + 1) |-> Modulus - 1]

Receivers == {<<>>, Stale}

\* the writers: failing in the prefix, failing past it, never failing
Rooms ==
    {PrefixBytes - 1, PrefixBytes + 1, PrefixBytes + MaxWitness * ElementBytes}

\* the curves backend/plonk has a typed system, proof and key for
PlonkCurves ==
    {"BN254", "BLS12_381", "BLS12_377", "BW6_633", "BW6_761", "BLS24_315"}

\* the circuit was compiled: toSparseR1CS returned the system of a circuit
\* with no constraint, which counts its public and secret leaves
WitnessInit ==
    /\ circuit \in Circuits
    /\ curveID \in {"BN254", "UNKNOWN"}
    /\ cs = CS(1 + count([k \in 1..Len(circuit) |-> Leaf(circuit[k], "nil", 0)]).nbPublic,
               count([k \in 1..Len(circuit) |-> Leaf(circuit[k], "nil", 0)]).nbSecret,
               0, <<>>, <<>>, <<>>)
    /\ pc = "done"
    /\ i = 0
    /\ j = 0
    /\ res = newSparseR1CS(cs)
    /\ emitted = <<>>
    /\ ret = curveSwitch(curveID, "HEAD")
    /\ witness = <<>>
    /\ stream = <<>>
    /\ received = <<>>
    /\ call = NoCall
    /\ result = Returns(0, "nil")

\* witness.FromFullAssignment(assignment), on a receiver
CallFromFullAssignment ==
    /\ call.op = "none"
    /\ \E recv \in Receivers, a \in AssignmentsOf(circuit) :
       \E out \in {FromFullAssignment(recv, a)} :
           /\ witness' = out.w
           /\ result' = Returns(0, out.err)
           /\ call' = Call("FromFullAssignment", recv, 0, a, 0)
    /\ UNCHANGED <<circuit, stream, received>>
    /\ UNCHANGED lvars

\* witness.FromPublicAssignment(assignment), on a receiver
CallFromPublicAssignment ==
    /\ call.op = "none"
    /\ \E recv \in Receivers, a \in AssignmentsOf(circuit) :
       \E out \in {FromPublicAssignment(recv, a)} :
           /\ witness' = out.w
           /\ result' = Returns(0, out.err)
           /\ call' = Call("FromPublicAssignment", recv, 0, a, 0)
    /\ UNCHANGED <<circuit, stream, received>>
    /\ UNCHANGED lvars

\* witness.WriteTo(writer): the witness an assignment filled goes to the
\* stream
CallWriteTo ==
    /\ call.op \in {"FromFullAssignment", "FromPublicAssignment"}
    /\ \E room \in Rooms :
       \E out \in {WriteTo(witness, room)} :
           /\ stream' = stream \o out.out
           /\ result' = Returns(out.n, out.err)
           /\ call' = Call("WriteTo", witness, 0, <<>>, room)
    /\ UNCHANGED <<circuit, witness, received>>
    /\ UNCHANGED lvars

\* the reader is handed the stream cut short
Truncate ==
    /\ call.op = "WriteTo"
    /\ result.err = "nil"
    /\ \E k \in 0..(Len(stream) - 1) :
           /\ stream' = SubSeq(stream, 1, k)
           /\ call' = Call("Truncate", witness, k, <<>>, 0)
    /\ UNCHANGED <<circuit, witness, received, result>>
    /\ UNCHANGED lvars

\* receiver.LimitReadFrom(stream, expectedSize)
CallLimitReadFrom ==
    /\ call.op \in {"WriteTo", "Truncate"}
    /\ \E recv \in Receivers \cup {witness}, expectedSize \in 0..(MaxWitness + 1) :
       \E out \in {LimitReadFrom(recv, stream, expectedSize)} :
           /\ received' = out.w
           /\ stream' = out.r
           /\ result' = Returns(out.n, out.err)
           /\ call' = Call("LimitReadFrom", recv, expectedSize, <<>>, 0)
    /\ UNCHANGED <<circuit, witness>>
    /\ UNCHANGED lvars

\* ccs.GetNbVariables(): internal, secret, public
GetNbVariables(ccs) ==
    <<ccs.NbInternalVariables, ccs.NbSecretVariables, ccs.NbPublicVariables>>

\* expectedSize := (nbSecret + nbPublic)
expectedSizeToProve(ccs) == GetNbVariables(ccs)[2] + GetNbVariables(ccs)[3]

\* plonk.ReadAndProve(ccs, pk, stream): the witness read is handed to the
\* curve's Prove, which is not modelled: it returns a proof or an error
CallReadAndProve ==
    /\ call.op \in {"WriteTo", "Truncate"}
    /\ ret.kind = "ok"
    /\ \E sys \in {ret.sys[1]} :
       \E expectedSize \in {expectedSizeToProve(sys.ccs)} :
       \E out \in {LimitReadFrom(<<>>, stream, expectedSize)} :
           /\ call' = Call("ReadAndProve", <<>>, 0, <<>>, 0)
           /\ IF sys.curve \notin PlonkCurves
              THEN /\ result' = Returns(0, "panic")
                   /\ UNCHANGED <<received, stream>>
              ELSE /\ received' = out.w
                   /\ stream' = out.r
                   /\ IF out.err # "nil"
                      THEN result' = Returns(out.n, out.err)
                      ELSE \E proved \in BOOLEAN :
                             result' = Returns(out.n, IF proved THEN "nil" ELSE "prove")
    /\ UNCHANGED <<circuit, witness>>
    /\ UNCHANGED lvars

\* the verifying keys: of a curve, with the number of elements expected in
\* the public witness
VerifyingKeys ==
    {[curve |-> c, NbPublicWitness |-> n] :
       c \in {"BN254", "UNKNOWN"}, n \in 0..MaxWitness}

\* expectedSize := vk.NbPublicWitness()
expectedSizeToVerify(vk) == vk.NbPublicWitness

\* plonk.ReadAndVerify(proof, vk, stream), proof and vk of one curve: the
\* witness read is handed to the curve's Verify, which is not modelled
CallReadAndVerify ==
    /\ call.op \in {"WriteTo", "Truncate"}
    /\ \E vk \in VerifyingKeys :
       \E expectedSize \in {expectedSizeToVerify(vk)} :
       \E out \in {LimitReadFrom(<<>>, stream, expectedSize)} :
           /\ call' = Call("ReadAndVerify", <<>>, vk.NbPublicWitness, <<>>, 0)
           /\ IF vk.curve \notin PlonkCurves
              THEN /\ result' = Returns(0, "panic")
                   /\ UNCHANGED <<received, stream>>
              ELSE /\ received' = out.w
                   /\ stream' = out.r
                   /\ IF out.err # "nil"
                      THEN result' = Returns(out.n, out.err)
                      ELSE \E verified \in BOOLEAN :
                             result' = Returns(out.n, IF verified THEN "nil" ELSE "verify")
    /\ UNCHANGED <<circuit, witness>>
    /\ UNCHANGED lvars

WitnessNext ==
    \/ CallFromFullAssignment
    \/ CallFromPublicAssignment
    \/ CallWriteTo
    \/ Truncate
    \/ CallLimitReadFrom
    \/ CallReadAndProve
    \/ CallReadAndVerify

WitnessSpec == WitnessInit /\ [][WitnessNext]_vars

----------------------------------------------------------------------------
(* Properties *)

\* the five term slots of a gate
Slots(g) == <<g.L, g.R, g.O, g.M[1], g.M[2]>>

\* the gates of the system toSparseR1CS returned
FinalGates == ret.sys[1].ccs.Constraints \o ret.sys[1].ccs.Assertions

\* the size of the unified variable space of the returned system
NbVariables ==
    ret.sys[1].ccs.NbPublicVariables + ret.sys[1].ccs.NbSecretVariables
      + ret.sys[1].ccs.NbInternalVariables

\* the constraint the loop over cs.constraints is about to lower
NextConstraint == cs.constraints[i + 1]

LoweringConstraint == pc = "lower" /\ i < Len(cs.constraints)

\* C2: after a successful lowering every slot of every gate that is not the
\* sentinel has a visibility other than Unset and a variable ID below
\* NbPublicVariables + NbSecretVariables + NbInternalVariables
C2_SlotsSetAndInRange ==
    ret.kind = "ok" =>
      \A k \in 1..Len(FinalGates) : \A n \in 1..5 :
         Slots(FinalGates[k])[n] # ZeroTerm =>
           /\ Slots(FinalGates[k])[n].vis # "Unset"
           /\ Slots(FinalGates[k])[n].vid < NbVariables

\* C3: in every gate of the returned system L and M[0] carry the same
\* variable ID, and R and M[1] carry the same variable ID
C3_PairedVariableIDs ==
    ret.kind = "ok" =>
      \A k \in 1..Len(FinalGates) :
         /\ FinalGates[k].L.vid = FinalGates[k].M[1].vid
         /\ FinalGates[k].R.vid = FinalGates[k].M[2].vid

\* C5: the output's NbPublicVariables is the number of input public
\* variables minus one and its NbSecretVariables is the number of input
\* secret variables, at every point of the pass and in what it returns
C5_PublicSecretCounts ==
    /\ res.ccs.NbPublicVariables = cs.public - 1
    /\ res.ccs.NbSecretVariables = cs.secret
    /\ ret.kind = "ok" =>
          /\ ret.sys[1].ccs.NbPublicVariables = cs.public - 1
          /\ ret.sys[1].ccs.NbSecretVariables = cs.secret

\* a system with three public and no secret variables went through the
\* whole pass and was returned with its gate
C5_OneWireDropped ==
    /\ ret.kind = "ok"
    /\ cs.public = 3
    /\ cs.secret = 0
    /\ Len(ret.sys[1].ccs.Constraints) = 1
    /\ ret.sys[1].ccs.NbPublicVariables = 2

\* a gate holds, where offsetIDTerm reads it, a term that is not the sentinel
\* and has Unset visibility
UnsetReaches(gates) ==
    \E k \in 1..Len(gates) : \E n \in 1..5 :
       /\ Slots(pairLM(gates[k]))[n] # ZeroTerm
       /\ Slots(pairLM(gates[k]))[n].vis = "Unset"

UnsetInLogs ==
    \E k \in 1..Len(cs.logs) : \E n \in 1..Len(cs.logs[k].toResolve) :
       /\ cs.logs[k].toResolve[n] # ZeroTerm
       /\ cs.logs[k].toResolve[n].vis = "Unset"

\* C7: when renumbering meets a term with Unset visibility that is not the
\* sentinel, in a gate of Constraints, in a gate of Assertions or in a log's
\* toResolve, the pass returns the error ErrInputNotSet and no system
C7_UnsetInputReported ==
    [][(\/ /\ pc = "lower"
           /\ i = Len(cs.constraints)
           /\ j = Len(cs.assertions)
           /\ UnsetReaches(res.ccs.Constraints)
        \/ pc = "offsetAssertions" /\ UnsetReaches(res.ccs.Assertions)
        \/ pc = "logs" /\ UnsetInLogs)
         => ret' = Failure("ErrInputNotSet")]_vars

\* the curves one side or the other of the switch hands to a backend
SupportedCurves ==
    {"BLS12_377", "BLS12_381", "BN254", "BW6_761", "BLS24_315", "BW6_633"}

\* C8: with a curve ID that is not a supported curve the pass returns the
\* error UnsupportedCurve and no system
C8_UnsupportedCurveReported ==
    [][(pc = "curve" /\ curveID \notin SupportedCurves)
         => ret' = Failure("UnsupportedCurve")]_vars

\* C9: lowering a SingleOutput constraint in which findUnsolvedVariable finds
\* no target reports UnsolvableConstraint, adds no gate, makes no wire and
\* changes no CS -> CCS entry
C9_UnsolvableConstraintReported ==
    [][(/\ LoweringConstraint
        /\ NextConstraint.Solver = "SingleOutput"
        /\ findUnsolvedVariable(NextConstraint, res.solvedVariables).pos = -1)
         => /\ ret' = Failure("UnsolvableConstraint")
            /\ res'.ccs = res.ccs
            /\ res'.mCStoCCS = res.mCStoCCS]_vars

\* L holds exactly one term per bit, with the coefficients 1, 2, 4, ...
WellFormedBinaryDec(coeffs, l) ==
    \A b \in 0..(Len(l) - 1) :
       Cardinality({k \in 1..Len(l) : Coeff(coeffs, l[k].cid) = Pow2(b)}) = 1

\* C10: lowering a BinaryDec constraint whose L is not one term per bit with
\* the coefficients 1, 2, 4, ... reports MalformedBinaryDecomp
C10_MalformedBinaryDecompReported ==
    [][(/\ LoweringConstraint
        /\ NextConstraint.Solver = "BinaryDec"
        /\ ~WellFormedBinaryDec(cs.coeffs, NextConstraint.L))
         => ret' = Failure("MalformedBinaryDecomp")]_vars

----------------------------------------------------------------------------
(* The steps of the lowering, read from the history emitted: entry k is     *)
(* what the k-th call of r1cToSparseR1C or splitR1C left behind.            *)

InternalIDs == 0..(cs.internal - 1)

\* the solved-variable record before step k
SolvedBefore(k) ==
    IF k = 1 THEN [v \in 1..cs.internal |-> FALSE] ELSE emitted[k - 1].solved

\* the number of entries of Constraints before step k
ConstraintsBefore(k) == IF k = 1 THEN 0 ELSE emitted[k - 1].c

\* the internal variables step k marked solved
NewlySolved(k) ==
    {v \in InternalIDs : ~SolvedBefore(k)[v + 1] /\ emitted[k].solved[v + 1]}

\* the terms of a constraint
TermsOf(r1c) ==
    {r1c.L[n] : n \in 1..Len(r1c.L)} \cup {r1c.R[n] : n \in 1..Len(r1c.R)}
      \cup {r1c.O[n] : n \in 1..Len(r1c.O)}

\* the internal variables of constraint k that no earlier step solved
UnsolvedIn(k) ==
    {t.vid : t \in {u \in TermsOf(cs.constraints[k]) :
                      u.vis = "Internal" /\ ~SolvedBefore(k)[u.vid + 1]}}

\* the pass lowered every constraint and assertion and returned a system
LoweredAll ==
    /\ ret.kind = "ok"
    /\ Len(emitted) = Len(cs.constraints) + Len(cs.assertions)

\* every internal variable of the assertions is solved when they are lowered
AssertionsSolved ==
    \A k \in 1..Len(cs.assertions) : \A t \in TermsOf(cs.assertions[k]) :
       t.vis = "Internal" => res.solvedVariables[t.vid + 1]

\* every SingleOutput constraint had exactly one unsolved internal variable
\* when it was lowered; every BinaryDec constraint had its bits unsolved, one
\* internal variable per power of two, and nothing unsolved in O; an
\* assertion had none
OneUnsolvedEach ==
    /\ AssertionsSolved
    /\ \A k \in 1..Len(cs.constraints) :
       IF cs.constraints[k].Solver = "SingleOutput"
       THEN Cardinality(UnsolvedIn(k)) = 1
       ELSE /\ WellFormedBinaryDec(cs.coeffs, cs.constraints[k].L)
            /\ \A n \in 1..Len(cs.constraints[k].L) :
                  cs.constraints[k].L[n].vis = "Internal"
            /\ UnsolvedIn(k) = {cs.constraints[k].L[n].vid :
                                  n \in 1..Len(cs.constraints[k].L)}
            /\ Cardinality(UnsolvedIn(k)) = Len(cs.constraints[k].L)

----------------------------------------------------------------------------
(* Assignments and the gate semantics *)

Values == (0 - MaxVal)..MaxVal

\* an assignment of the input's variables (the ONE_WIRE is 1)
Assignments ==
    [pub : [1..(cs.public - 1) -> Values],
     sec : [1..cs.secret -> Values],
     int : [1..cs.internal -> Values]]

\* the value of the variable of an input term
TermValue(t, asg) ==
    CASE t.vis = "Public"   -> IF t.vid = 0 THEN 1 ELSE asg.pub[t.vid]
      [] t.vis = "Secret"   -> asg.sec[t.vid + 1]
      [] t.vis = "Internal" -> asg.int[t.vid + 1]
      [] t.vis = "Unset"    -> 0

RECURSIVE EvalLE(_, _)
EvalLE(le, asg) ==
    IF Len(le) = 0 THEN 0
    ELSE Coeff(cs.coeffs, le[1].cid) * TermValue(le[1], asg) + EvalLE(Tail(le), asg)

\* L * R = O
R1CHolds(r1c, asg) == EvalLE(r1c.L, asg) * EvalLE(r1c.R, asg) = EvalLE(r1c.O, asg)

Satisfies(asg) ==
    /\ \A k \in 1..Len(cs.constraints) : R1CHolds(cs.constraints[k], asg)
    /\ \A k \in 1..Len(cs.assertions) : R1CHolds(cs.assertions[k], asg)

\* the value of a gate's slot; val[n + 1] is the value of the variable n of
\* the unified space
SlotValue(t, val) ==
    IF t = ZeroTerm \/ t.vid >= Len(val) THEN 0 ELSE val[t.vid + 1]

\* coeff(L)*var(L) + coeff(R)*var(R) + coeff(M[0])*coeff(M[1])*var(M[0])*var(M[1])
\*   + coeff(O)*var(O) + pool[K]
GateValue(g, val) ==
    Coeff(cs.coeffs, g.L.cid) * SlotValue(g.L, val)
      + Coeff(cs.coeffs, g.R.cid) * SlotValue(g.R, val)
      + Coeff(cs.coeffs, g.M[1].cid) * Coeff(cs.coeffs, g.M[2].cid)
          * SlotValue(g.M[1], val) * SlotValue(g.M[2], val)
      + Coeff(cs.coeffs, g.O.cid) * SlotValue(g.O, val)
      + Coeff(cs.coeffs, g.K)

\* the input internal variables a wire of the output stands for
StandsFor(w) == {v \in InternalIDs : res.solvedVariables[v + 1] /\ res.mCStoCCS[v + 1] = w}

\* the assignment carried over to the unified space: a wire that stands for
\* an input internal variable has its value, a fresh wire has no value yet
Carried(asg) ==
    [known |-> {n \in 0..(NbVariables - 1) :
                  \/ n < res.ccs.NbPublicVariables + res.ccs.NbSecretVariables
                  \/ StandsFor(n - res.ccs.NbPublicVariables
                                 - res.ccs.NbSecretVariables) # {}},
     val |-> [m \in 1..NbVariables |->
               IF m <= res.ccs.NbPublicVariables THEN asg.pub[m]
               ELSE IF m <= res.ccs.NbPublicVariables + res.ccs.NbSecretVariables
               THEN asg.sec[m - res.ccs.NbPublicVariables]
               ELSE IF StandsFor(m - 1 - res.ccs.NbPublicVariables
                                   - res.ccs.NbSecretVariables) # {}
               THEN asg.int[1 + Min(StandsFor(m - 1 - res.ccs.NbPublicVariables
                                               - res.ccs.NbSecretVariables))]
               ELSE 0]]

Max(W) == CHOOSE x \in W : \A y \in W : x >= y

\* the variables of a gate that have no value yet
UnknownWires(g, known) ==
    {Slots(g)[n].vid : n \in {m \in 1..5 : Slots(g)[m] # ZeroTerm}} \ known

\* the value of the wire w that makes the gate zero, the gate being affine in
\* w: v0 and v1 are the gate's values with w at 0 and at 1
Root(v0, v1) ==
    CASE v1 = v0 -> 0
      [] v1 > v0 -> (0 - v0) \div (v1 - v0)
      [] v1 < v0 -> v0 \div (v0 - v1)

SolveWire(g, val, w) ==
    Root(GateValue(g, [val EXCEPT ![w + 1] = 0]),
         GateValue(g, [val EXCEPT ![w + 1] = 1]))

\* the gate that first carries a fresh wire fixes its value
ExtendGate(g, env) ==
    IF UnknownWires(g, env.known) = {}
    THEN env
    ELSE [known |-> env.known \cup UnknownWires(g, env.known),
          val |-> [env.val EXCEPT ![Max(UnknownWires(g, env.known)) + 1] =
                     SolveWire(g, env.val, Max(UnknownWires(g, env.known)))]]

\* the extension of an assignment to the fresh wires, gate by gate in the
\* order of emission
RECURSIVE Extend(_, _, _)
Extend(gates, k, env) ==
    IF k > Len(gates) THEN env
    ELSE Extend(gates, k + 1, ExtendGate(gates[k], env))

\* C1: with exactly one unsolved internal variable per constraint, every
\* assignment that satisfies the input's constraints and assertions extends
\* to the fresh wires so that every gate of the returned system is zero
C1_GateIdentity ==
    (LoweredAll /\ OneUnsolvedEach) =>
      \A asg \in Assignments :
         Satisfies(asg) =>
           \A k \in 1..Len(FinalGates) :
              GateValue(FinalGates[k],
                        Extend(ret.sys[1].ccs.Constraints, 1, Carried(asg)).val) = 0

----------------------------------------------------------------------------
(* Where the solved variables and the input's terms stand in the output *)

\* the index of the unified space that stands for the input's internal
\* variable v
Wire(v) ==
    res.mCStoCCS[v + 1] + res.ccs.NbPublicVariables + res.ccs.NbSecretVariables

Carries(t, v) == t.vis = "Internal" /\ t.vid = Wire(v)

\* the positions in Constraints of the gates step k emitted
GatesOf(k) == (ConstraintsBefore(k) + 1)..emitted[k].c

\* the expression findUnsolvedVariable met the target of constraint k in
TargetPos(k) == findUnsolvedVariable(cs.constraints[k], SolvedBefore(k)).pos

\* the whole input was lowered and every internal variable is the solving
\* target of exactly one constraint: a SingleOutput constraint solves one
\* variable, a BinaryDec constraint solves the variables of L, all internal
TargetedOnce ==
    /\ LoweredAll
    /\ \A v \in InternalIDs : \E k \in 1..Len(cs.constraints) : v \in NewlySolved(k)
    /\ \A k \in 1..Len(cs.constraints) :
          IF cs.constraints[k].Solver = "SingleOutput"
          THEN Cardinality(NewlySolved(k)) = 1
          ELSE \A n \in 1..Len(cs.constraints[k].L) :
                  /\ cs.constraints[k].L[n].vis = "Internal"
                  /\ cs.constraints[k].L[n].vid \in NewlySolved(k)

\* every term of le over the internal variable v has a non-zero coefficient
NonZeroIn(le, v) ==
    \A n \in 1..Len(le) : IsInternal(le[n], v) => Coeff(cs.coeffs, le[n].cid) # 0

\* the gates of the bit loop that carry v as the bit wire r_i
BitGates(v) ==
    {g \in 1..Len(FinalGates) :
       FinalGates[g].Solver = "BinaryDec" /\ Carries(FinalGates[g].R, v)}

\* the gates whose O slot carries v with a non-zero coefficient
OGates(v) ==
    {g \in 1..Len(FinalGates) :
       Carries(FinalGates[g].O, v) /\ Coeff(cs.coeffs, FinalGates[g].O.cid) # 0}

\* last, the last gate of constraint k, carries v: in O when v was met in O,
\* in L when it was met in L or R; no gate of an earlier constraint does
SolvedInLastGate(k, v, last) ==
    /\ IF TargetPos(k) = 2
       THEN /\ Carries(last.O, v)
            /\ NonZeroIn(cs.constraints[k].O, v) => Coeff(cs.coeffs, last.O.cid) # 0
       ELSE Carries(last.L, v)
    /\ \A g \in 1..ConstraintsBefore(k) : \A n \in 1..5 :
          ~Carries(Slots(FinalGates[g])[n], v)

\* C4, as the code has it: when every internal variable is the solving
\* target of exactly one constraint, the last gate emitted for the
\* SingleOutput constraint that solves a variable carries the variable's
\* renumbered ID, in its O slot (with a non-zero coefficient when the
\* variable's coefficient in O is non-zero) when the variable stands in O, in
\* its L slot when it stands in L or R, and no gate of an earlier constraint
\* carries that ID; a variable resolved by a BinaryDec constraint is carried
\* as the bit wire r_i by exactly one gate
C4_SolvedWireInLastGate ==
    TargetedOnce =>
      \A k \in 1..Len(cs.constraints) : \A v \in NewlySolved(k) :
         IF cs.constraints[k].Solver = "SingleOutput"
         THEN /\ GatesOf(k) # {}
              /\ SolvedInLastGate(k, v, FinalGates[emitted[k].c])
         ELSE Cardinality(BitGates(v)) = 1

\* two constraints were lowered, the first with its target in O and the
\* second with its target in L or R
C4_TargetInOThenInL ==
    /\ TargetedOnce
    /\ Len(cs.constraints) = 2
    /\ cs.constraints[1].Solver = "SingleOutput"
    /\ cs.constraints[2].Solver = "SingleOutput"
    /\ TargetPos(1) = 2
    /\ TargetPos(2) # 2
    /\ Carries(FinalGates[emitted[2].c].L, Min(NewlySolved(2)))

\* C4, as the specification words it: when every internal variable is the
\* solving target of exactly one constraint, exactly one gate of the output
\* carries the variable's renumbered ID in its O slot with a non-zero
\* coefficient, or, for a variable resolved by a BinaryDec constraint,
\* exactly one gate carries it as the bit wire r_i
C4_OneGateWithOSlot ==
    TargetedOnce =>
      \A k \in 1..Len(cs.constraints) : \A v \in NewlySolved(k) :
         IF cs.constraints[k].Solver = "SingleOutput"
         THEN Cardinality(OGates(v)) = 1
         ELSE Cardinality(BitGates(v)) = 1

\* the index of an input term in the layout [public | secret | internal]
LayoutIndex(t) ==
    CASE t.vis = "Public" -> t.vid - 1
      [] t.vis = "Secret" -> t.vid + res.ccs.NbPublicVariables
      [] t.vis = "Internal" -> Wire(t.vid)
      [] OTHER -> -1

\* the input terms the layout has an index for: not the ONE_WIRE, not Unset
InLayout(t) ==
    t.vis \in {"Secret", "Internal"} \/ (t.vis = "Public" /\ t.vid >= 1)

\* the input of step k: the constraints, then the assertions
StepInput(k) ==
    IF k <= Len(cs.constraints) THEN cs.constraints[k]
    ELSE cs.assertions[k - Len(cs.constraints)]

AssertionsBefore(k) == IF k = 1 THEN 0 ELSE emitted[k - 1].a

\* the gates step k emitted, as returned
StepGates(k) ==
    {ret.sys[1].ccs.Constraints[g] : g \in GatesOf(k)}
      \cup {ret.sys[1].ccs.Assertions[g] :
              g \in (AssertionsBefore(k) + 1)..emitted[k].a}

\* a gate of step k carries the input term t at its index of the layout
CarriedBy(k, t) ==
    \E g \in StepGates(k) : \E n \in 1..5 :
       /\ Slots(g)[n].vis = t.vis
       /\ Slots(g)[n].vid = LayoutIndex(t)

LogsMapped ==
    /\ Len(ret.sys[1].ccs.Logs) = Len(cs.logs)
    /\ \A k \in 1..Len(cs.logs) :
          /\ Len(ret.sys[1].ccs.Logs[k].ToResolve) = Len(cs.logs[k].toResolve)
          /\ \A n \in 1..Len(cs.logs[k].toResolve) :
                InLayout(cs.logs[k].toResolve[n]) =>
                  ret.sys[1].ccs.Logs[k].ToResolve[n]
                    = LayoutIndex(cs.logs[k].toResolve[n])

GatesMapped ==
    \A k \in 1..Len(emitted) : \A t \in TermsOf(StepInput(k)) :
       InLayout(t) => CarriedBy(k, t)

\* C6: in the returned system every log has its entry, with the index of the
\* layout for each term (Public v >= 1 at v - 1, Secret v at
\* v + NbPublicVariables, Internal v at CSToCCS[v] + NbPublicVariables
\* + NbSecretVariables), and the gates of every constraint and assertion
\* carry each of its variables at that same index
C6_UnifiedLayout == LoweredAll => LogsMapped /\ GatesMapped

----------------------------------------------------------------------------
(* The order of emission *)

\* a is what b starts with
IsPrefix(a, b) == Len(a) <= Len(b) /\ SubSeq(b, 1, Len(a)) = a

----------------------------------------------------------------------------
(* The coefficient pool *)

\* every coefficient ID of the gates built so far is an index of the pool
StampedIDsValid ==
    \A g \in 1..(Len(res.ccs.Constraints) + Len(res.ccs.Assertions)) :
       /\ (res.ccs.Constraints \o res.ccs.Assertions)[g].K < Len(cs.coeffs)
       /\ \A n \in 1..5 :
             Slots((res.ccs.Constraints \o res.ccs.Assertions)[g])[n].cid
               < Len(cs.coeffs)

\* C12: no step of the pass rewrites or removes an entry of the coefficient
\* pool, it only appends; the indices 0, 1, 2 denote 0, 1, -1 after every
\* step and every coefficient ID stamped into a gate is an index of the pool
C12_PoolOnlyAppends ==
    [][/\ IsPrefix(cs.coeffs, cs'.coeffs)
       /\ IsPrefix(<<0, 1, -1>>, cs'.coeffs)
       /\ StampedIDsValid']_vars

\* the pass returned a system after it appended to the pool
C12_PoolGrew ==
    /\ ret.kind = "ok"
    /\ Len(cs.coeffs) > Len(InputCoeffs)
    /\ Len(res.ccs.Constraints) >= 2

----------------------------------------------------------------------------
(* What one call of splitR1C leaves behind *)

\* the assertion the loop over cs.assertions is about to lower
NextAssertion == cs.assertions[j + 1]

LoweringAssertion ==
    pc = "lower" /\ i = Len(cs.constraints) /\ j < Len(cs.assertions)

\* the variable part and the constant of an expression of the assertion
VarPart(le) == popConstantTerm(cs.coeffs, le).l
ConstPart(le) == popConstantTerm(cs.coeffs, le).c

\* the gates a call of split emits for an expression of n terms
SplitGates(n) == IF n > 1 THEN n - 1 ELSE 0

\* g.O is -ot, ot the term split reduces the variable part o to: nothing when
\* o is empty, the negated term when o is one term, and else the last wire
\* of the pass (nb internal variables so far) with the coefficient 1
IsMinusOt(g, o, nb) ==
    CASE Len(o) = 0 -> g.O = ZeroTerm
      [] Len(o) = 1 ->
            /\ g.O.vis = o[1].vis
            /\ o[1].vis # "Internal" => g.O.vid = o[1].vid
            /\ Coeff(cs'.coeffs, g.O.cid) = 0 - Coeff(cs.coeffs, o[1].cid)
      [] OTHER ->
            /\ g.O.vis = "Internal"
            /\ g.O.vid = nb - 1
            /\ Coeff(cs'.coeffs, g.O.cid) = 1

\* C13: a call of splitR1C that returns appends exactly one gate to
\* Assertions, with O = -ot (empty when O has no terms) and
\* K = coeffID(cL*cR - cO), and appends to Constraints the gates of its
\* calls of split and no other
C13_OneAssertionGate ==
    [][(LoweringAssertion /\ pc' = "lower") =>
         /\ Len(res'.ccs.Assertions) = Len(res.ccs.Assertions) + 1
         /\ Len(res'.ccs.Constraints) =
               Len(res.ccs.Constraints)
                 + SplitGates(Len(VarPart(NextAssertion.L)))
                 + SplitGates(Len(VarPart(NextAssertion.R)))
                 + SplitGates(Len(VarPart(NextAssertion.O)))
         /\ Coeff(cs'.coeffs, res'.ccs.Assertions[Len(res'.ccs.Assertions)].K) =
               ConstPart(NextAssertion.L) * ConstPart(NextAssertion.R)
                 - ConstPart(NextAssertion.O)
         /\ IsMinusOt(res'.ccs.Assertions[Len(res'.ccs.Assertions)],
                      VarPart(NextAssertion.O), res'.ccs.NbInternalVariables)]_vars

----------------------------------------------------------------------------
(* The solver tags *)

TagsOf(gates) == [k \in 1..Len(gates) |-> gates[k].Solver]

\* the tags of the gates a step appended to Constraints
NewTags == SubSeq(TagsOf(res'.ccs.Constraints), Len(res.ccs.Constraints) + 1,
                  Len(res'.ccs.Constraints))

Repeat(tag, n) == [k \in 1..n |-> tag]

\* the step lowers a BinaryDec constraint and returns
LowersBinaryDec ==
    LoweringConstraint /\ NextConstraint.Solver = "BinaryDec" /\ pc' = "lower"

\* no step changes the tag of a gate, and the gates a step appends to
\* Assertions carry SingleOutput
TagsKept ==
    /\ IsPrefix(TagsOf(res.ccs.Constraints), TagsOf(res'.ccs.Constraints))
    /\ IsPrefix(TagsOf(res.ccs.Assertions), TagsOf(res'.ccs.Assertions))
    /\ \A k \in (Len(res.ccs.Assertions) + 1)..Len(res'.ccs.Assertions) :
          res'.ccs.Assertions[k].Solver = "SingleOutput"

\* C14, as the code has it: the gates of the bit loop of a BinaryDec
\* lowering, one per term of L and the last ones of the step, carry the tag
\* BinaryDec; every other gate carries SingleOutput: the gates that reduce O
\* before the bit loop, the gates of single-output lowering, of split and of
\* assertion lowering; no later step changes a tag
C14_BitLoopGatesTaggedBinaryDec ==
    [][/\ TagsKept
       /\ IF LowersBinaryDec
          THEN /\ Len(NewTags) >= Len(NextConstraint.L)
               /\ NewTags = Repeat("SingleOutput",
                                   Len(NewTags) - Len(NextConstraint.L))
                              \o Repeat("BinaryDec", Len(NextConstraint.L))
          ELSE \/ LoweringConstraint /\ NextConstraint.Solver = "BinaryDec"
               \/ NewTags = Repeat("SingleOutput", Len(NewTags))]_vars

\* a BinaryDec constraint whose O took gates to reduce was lowered and the
\* system returned
C14_BinaryDecWithReducedO ==
    /\ ret.kind = "ok"
    /\ Len(cs.constraints) = 1
    /\ cs.constraints[1].Solver = "BinaryDec"
    /\ emitted[1].c > Len(cs.constraints[1].L)
    /\ ret.sys[1].ccs.Constraints[1].Solver = "SingleOutput"
    /\ ret.sys[1].ccs.Constraints[emitted[1].c].Solver = "BinaryDec"

\* C14, as the specification words it: every gate emitted while lowering a
\* BinaryDec constraint carries the tag BinaryDec, the gates that reduce O
\* included, and every gate of single-output lowering and of assertion
\* lowering carries SingleOutput
C14_AllBinaryDecGatesTagged ==
    [][/\ TagsKept
       /\ IF LoweringConstraint /\ NextConstraint.Solver = "BinaryDec"
          THEN NewTags = Repeat("BinaryDec", Len(NewTags))
          ELSE NewTags = Repeat("SingleOutput", Len(NewTags))]_vars

----------------------------------------------------------------------------
(* The renumbering applied to its own output *)

\* the CS -> CCS map is the identity
IdentityMap == \A v \in InternalIDs : res.mCStoCCS[v + 1] = v

\* offsetIDs applied to a gate of the returned system leaves it as it is
Unmoved(g) ==
    /\ offsetIDs(g, ret.sys[1].ccs).err = "nil"
    /\ offsetIDs(g, ret.sys[1].ccs).exp = g

\* the offset of every set term of the gate is zero
ZeroOffsets(g) ==
    \A n \in 1..5 :
       \/ Slots(g)[n] = ZeroTerm
       \/ /\ Slots(g)[n].vis = "Secret"
          /\ ret.sys[1].ccs.NbPublicVariables = 0
       \/ /\ Slots(g)[n].vis = "Internal"
          /\ ret.sys[1].ccs.NbPublicVariables + ret.sys[1].ccs.NbSecretVariables = 0

\* the log loop run again gives the entries the system holds
LogsUnmoved ==
    \A k \in 1..Len(cs.logs) :
       ~logPanics(cs.logs[k], res) /\ logEntry(cs.logs[k], res) = ret.sys[1].ccs.Logs[k]

\* C15, as the code has it: the renumbering applied again to a returned
\* system offsets every set term again; it leaves a gate unchanged exactly
\* when the gate has no set Public term and the offsets of its set terms are
\* zero (Secret with NbPublicVariables = 0, Internal with NbPublicVariables
\* + NbSecretVariables = 0); the log entries, computed from the input's logs,
\* are unchanged
C15_RenumberingOffsetsAgain ==
    ret.kind = "ok" =>
      /\ \A k \in 1..Len(FinalGates) :
            Unmoved(FinalGates[k]) <=> ZeroOffsets(FinalGates[k])
      /\ LogsUnmoved

\* a system was returned with the identity as its CS -> CCS map, a gate
\* over a secret, a public and an internal variable, and a log
C15_RenumberedIdentityMap ==
    /\ ret.kind = "ok"
    /\ IdentityMap
    /\ Len(cs.logs) = 1
    /\ Len(FinalGates) = 1
    /\ FinalGates[1].L.vis = "Secret"
    /\ FinalGates[1].R.vis = "Public"
    /\ FinalGates[1].O.vis = "Internal"
    /\ ret.sys[1].ccs.NbPublicVariables = 1

\* C15, as the specification words it: the renumbering applied again to a
\* returned system whose CS -> CCS map is the identity (the public count is
\* decremented at construction) leaves every term of every gate and log
\* unchanged
C15_RenumberingIdempotent ==
    (ret.kind = "ok" /\ IdentityMap) =>
      /\ \A k \in 1..Len(FinalGates) : Unmoved(FinalGates[k])
      /\ LogsUnmoved

----------------------------------------------------------------------------
(* One multiplication: (x)*(x) = (y) *)

\* the constraint x*x = y, x the internal variable 0, y the public variable 1
Square == R1C(<<X(0)>>, <<X(0)>>, <<Y>>, "SingleOutput")

\* the pass is lowering the system's only constraint, x*x = y
LoweringSquare ==
    /\ cs.constraints = <<Square>>
    /\ LoweringConstraint
    /\ emitted' # emitted

\* the gate -y + w*w = 0: w in L and R with coefficient zero
SquareGate(w) ==
    [EmptyGate EXCEPT !.L = Pack(w, CoeffIdZero, "Internal"),
                      !.R = Pack(w, CoeffIdZero, "Internal"),
                      !.M = <<Pack(w, CoeffIdOne, "Internal"),
                              Pack(w, CoeffIdOne, "Internal")>>,
                      !.O = Pack(1, CoeffIdMinusOne, "Public")]

\* what lowering x*x = y leaves apart from the count of internal variables:
\* one gate, -y + w*w = 0 with w the wire given to x, x solved and mapped to
\* w, and the pool as it was
SquareLowered ==
    /\ res'.ccs.Constraints = <<SquareGate(res.ccs.NbInternalVariables)>>
    /\ res'.ccs.Assertions = <<>>
    /\ res'.mCStoCCS[1] = res.ccs.NbInternalVariables
    /\ res'.solvedVariables[1]
    /\ cs'.coeffs = cs.coeffs
    /\ pc' = "lower"

\* C16, amended: lowering the single constraint x*x = y emits exactly one
\* gate, -y + x*x = 0, leaves the coefficient pool unchanged, and adds 1 to
\* NbInternalVariables: the wire newTerm allocates for x; no helper wire is
\* allocated
C16_SquareAllocatesOneWire ==
    [][LoweringSquare =>
         /\ SquareLowered
         /\ res'.ccs.NbInternalVariables = res.ccs.NbInternalVariables + 1]_vars

\* x*x = y was lowered and the system returned: one gate, one internal wire
C16_SquareReturned ==
    /\ ret.kind = "ok"
    /\ cs.constraints = <<Square>>
    /\ cs.assertions = <<>>
    /\ Len(ret.sys[1].ccs.Constraints) = 1
    /\ ret.sys[1].ccs.NbInternalVariables = 1

\* C16, as the specification words it: lowering the single constraint
\* x*x = y emits exactly one gate, -y + x*x = 0, adds 0 to
\* NbInternalVariables and leaves the coefficient pool unchanged
C16_SquareAddsNoInternal ==
    [][LoweringSquare =>
         /\ SquareLowered
         /\ res'.ccs.NbInternalVariables = res.ccs.NbInternalVariables]_vars

----------------------------------------------------------------------------
(* The number of gates of one single-output lowering *)

\* the locals r1cToPlonkConstraintSingleOutput holds at its case switch when
\* it lowers the next constraint: l, r, o are L, R, O without their
\* constants and without toSolve
LocalsAfter(found, lro, l0, r0, o0) ==
    singleOutputLocals(Scs, found, lro, l0, r0, o0,
                       popInternalVariable(IF lro = 0 THEN l0.l ELSE o0.l, found.id))

LocalsOf(r1c, found) ==
    LocalsAfter(found, IF found.pos = 1 THEN 0 ELSE found.pos,
                popConstantTerm(cs.coeffs, IF found.pos = 1 THEN r1c.R ELSE r1c.L),
                popConstantTerm(cs.coeffs, IF found.pos = 1 THEN r1c.L ELSE r1c.R),
                popConstantTerm(cs.coeffs, r1c.O))

NextLocals ==
    LocalsOf(NextConstraint, findUnsolvedVariable(NextConstraint, res.solvedVariables))

\* the base count of the case table
BaseGates(s) ==
    CASE s = 7 -> 3
      [] s \in {3, 15} -> 2
      [] OTHER -> 1

\* the additions split emits to reduce le to one term
SplitCount(le) == IF Len(le) > 1 THEN Len(le) - 1 ELSE 0

ExpectedGates(x) ==
    BaseGates(caseIndex(x.lro, x.l, x.r, x.o))
      + SplitCount(x.l) + SplitCount(x.r) + SplitCount(x.o)

\* a SingleOutput constraint is lowered and the lowering returns
LoweringSingleOutput ==
    /\ LoweringConstraint
    /\ NextConstraint.Solver = "SingleOutput"
    /\ emitted' # emitted
    /\ pc' = "lower"

\* C17: single-output lowering of one constraint appends exactly
\* b + max(0,|l|-1) + max(0,|r|-1) + max(0,|o|-1) gates to Constraints,
\* with b = 3 in case 0111, b = 2 in cases 0011 and 1111 and b = 1 in the
\* thirteen other cases, and appends nothing to Assertions
C17_GateCountPerCase ==
    [][LoweringSingleOutput =>
         /\ Len(res'.ccs.Constraints) =
              Len(res.ccs.Constraints) + ExpectedGates(NextLocals)
         /\ res'.ccs.Assertions = res.ccs.Assertions]_vars

\* every expression of a constraint of case 0111 had MaxLen variables: the
\* three base gates and MaxLen - 1 additions for each of l, r, o
C17_LongestCase0111 ==
    /\ ret.kind = "ok"
    /\ cs.constraints = <<SingleR1C(0, <<MaxLen, MaxLen, MaxLen>>, <<2, 1, 1>>, 2, 0, FALSE)>>
    /\ Len(emitted) = 1
    /\ emitted[1].c = 3 + 3 * (MaxLen - 1)

----------------------------------------------------------------------------
(* Reading a witness back *)

\* the stream holds a length prefix, and the number it holds
HasPrefix == Len(stream) >= PrefixBytes

StreamPrefix == Uint(SubSeq(stream, 1, PrefixBytes))

\* the bytes of the k-th element behind the prefix
ElementAt(k) ==
    SubSeq(stream, PrefixBytes + (k - 1) * ElementBytes + 1,
           PrefixBytes + k * ElementBytes)

\* the read stopped at the prefix: 'invalid witness size' with 4 bytes read,
\* the receiver as it was, and every byte behind the prefix still to read
SizeRejected(recv) ==
    /\ result' = Returns(4, "invalid witness size")
    /\ received' = recv
    /\ stream' = SubSeq(stream, PrefixBytes + 1, Len(stream))

\* the read took the prefix and exactly size elements, and returned them
Decoded(size) ==
    /\ result' = Returns(PrefixBytes + size * ElementBytes, "nil")
    /\ Len(received') = size
    /\ \A k \in 1..size : received'[k] = Decode(ElementAt(k))
    /\ stream' = SubSeq(stream, PrefixBytes + size * ElementBytes + 1, Len(stream))

\* the stream is what WriteTo wrote, whole, for the witness
WrittenWhole == call.op = "WriteTo" /\ result.err = "nil"

\* the system handed to ReadAndProve has a curve backend/plonk knows
Provable == ret.kind = "ok" /\ ret.sys[1].curve \in PlonkCurves

----------------------------------------------------------------------------
(* Filling a witness from an assignment *)

\* the leaves of one visibility, in the order they are visited
LeavesOf(a, visibility) == SelectSeq(a, LAMBDA l : l.vis = visibility)

\* the elements the assigned values of leaves become
ElementsOf(leaves) == [k \in 1..Len(leaves) |-> leaves[k].val % Modulus]

\* [ public | secret ]
FullLayout(a) == ElementsOf(LeavesOf(a, "Public")) \o ElementsOf(LeavesOf(a, "Secret"))

AllAssigned(leaves) == \A k \in 1..Len(leaves) : leaves[k].set = "assigned"

SomeUnassigned(leaves) == \E k \in 1..Len(leaves) : leaves[k].set = "nil"

\* some leaf has no value and none has a value SetInterface rejects
OnlyUnassigned(leaves) ==
    /\ SomeUnassigned(leaves)
    /\ \A k \in 1..Len(leaves) : leaves[k].set # "invalid"

\* C19, amended: FromFullAssignment returns an error exactly when some leaf
\* has no (valid) value, and otherwise leaves a witness of length
\* nbPublic + nbSecret laid out as [public | secret], the k-th public leaf
\* visited at index k and the k-th secret leaf at index nbPublic + k,
\* however the leaves interleave.  FromPublicAssignment returns an error
\* exactly when some public leaf has no (valid) value, whatever the secret
\* leaves hold, and otherwise leaves the public prefix of that witness.
C19_PublicThenSecret ==
    [][/\ call'.op = "FromFullAssignment" =>
            /\ OnlyUnassigned(call'.leaves) => result'.err = "missing assignment"
            /\ result'.err = "nil" <=> AllAssigned(call'.leaves)
            /\ result'.err = "nil" => witness' = FullLayout(call'.leaves)
       /\ call'.op = "FromPublicAssignment" =>
            /\ OnlyUnassigned(LeavesOf(call'.leaves, "Public"))
                 => result'.err = "missing assignment"
            /\ result'.err = "nil" <=> AllAssigned(LeavesOf(call'.leaves, "Public"))
            /\ result'.err = "nil" =>
                 witness' = ElementsOf(LeavesOf(call'.leaves, "Public"))]_vars

\* a secret leaf visited before a public one, both assigned, filled a
\* receiver that was longer: the public value is in front
C19_SecretVisitedFirst ==
    /\ call.op = "FromFullAssignment"
    /\ call.recv = Stale
    /\ Len(call.leaves) = 2
    /\ call.leaves[1].vis = "Secret"
    /\ call.leaves[2].vis = "Public"
    /\ result.err = "nil"
    /\ witness = <<2, 1>>

\* C19, as the specification words it: FromFullAssignment produces the
\* witness [public | secret], FromPublicAssignment its public prefix, and a
\* visited variable with no assigned value makes either return an error
C19_UnassignedAlwaysAnError ==
    [][(call'.op \in {"FromFullAssignment", "FromPublicAssignment"}) =>
         /\ SomeUnassigned(call'.leaves) => result'.err # "nil"
         /\ AllAssigned(call'.leaves) =>
              /\ result'.err = "nil"
              /\ witness' = IF call'.op = "FromFullAssignment"
                            THEN FullLayout(call'.leaves)
                            ELSE ElementsOf(LeavesOf(call'.leaves, "Public"))]_vars

----------------------------------------------------------------------------
(* toSolve in O beside other terms: cases 1100, 1101, 1110, 1111 *)

\* the locals at the case switch for the system's first constraint, no
\* internal variable being solved yet
FirstLocals ==
    LocalsOf(cs.constraints[1],
             findUnsolvedVariable(cs.constraints[1], [k \in 1..cs.internal |-> FALSE]))

FirstCase ==
    caseIndex(FirstLocals.lro, FirstLocals.l, FirstLocals.r, FirstLocals.o)

\* the system of one SingleOutput constraint was lowered and returned
OneSingleOutputReturned ==
    /\ ret.kind = "ok"
    /\ Len(cs.constraints) = 1
    /\ cs.assertions = <<>>
    /\ cs.constraints[1].Solver = "SingleOutput"

\* every gate of the returned system is zero once the assignment is extended
\* to the fresh wires
GatesHold(asg) ==
    \A k \in 1..Len(FinalGates) :
       GateValue(FinalGates[k],
                 Extend(ret.sys[1].ccs.Constraints, 1, Carried(asg)).val) = 0

\* C22: in the cases 1100, 1101, 1110 and 1111 the emitted gates are
\* satisfied exactly by the assignments that satisfy the input equation
\* (l + cL)*(r + cR) = cS*t + o + cO, whatever the constants
C22_ToSolveInOGatesEquivalent ==
    (OneSingleOutputReturned /\ FirstLocals.lro = 2 /\ FirstCase \in 12..15) =>
      \A asg \in Assignments : Satisfies(asg) <=> GatesHold(asg)

----------------------------------------------------------------------------
(* What the gates of a binary decomposition assert *)

\* one well-formed BinaryDec constraint was lowered and the system returned
OneBinaryDecReturned ==
    /\ ret.kind = "ok"
    /\ Len(cs.constraints) = 1
    /\ cs.constraints[1].Solver = "BinaryDec"
    /\ WellFormedBinaryDec(cs.coeffs, cs.constraints[1].L)
    /\ \A n \in 1..Len(cs.constraints[1].L) : cs.constraints[1].L[n].vis = "Internal"

\* the assignments of the unified variable space of the returned system
WireValues == [1..NbVariables -> Values]

\* the variable of the unified space an input term stands in
WireOf(t) ==
    CASE t.vis = "Public"   -> t.vid - 1
      [] t.vis = "Secret"   -> ret.sys[1].ccs.NbPublicVariables + t.vid
      [] t.vis = "Internal" -> ret.sys[1].ccs.NbPublicVariables
                                 + ret.sys[1].ccs.NbSecretVariables
                                 + res.mCStoCCS[t.vid + 1]

\* the value of an input linear expression under an assignment of the
\* unified space
RECURSIVE WireSum(_, _)
WireSum(le, val) ==
    IF Len(le) = 0 THEN 0
    ELSE Coeff(cs.coeffs, le[1].cid)
           * (IF le[1].vis = "Public" /\ le[1].vid = 0 THEN 1
              ELSE val[WireOf(le[1]) + 1])
           + WireSum(Tail(le), val)

\* the gates the lowering of the constraint emitted
BinaryGates == SubSeq(ret.sys[1].ccs.Constraints, 1, emitted[1].c)

AllGatesZero(val) == \A k \in 1..Len(BinaryGates) : GateValue(BinaryGates[k], val) = 0

\* C23: every assignment of the wires that makes all the gates emitted for a
\* BinaryDec constraint zero gives O the value of the sum of 2^i * r_i, r_i
\* being the wire mapped to the L term of coefficient 2^i
C23_GatesAssertDecomposition ==
    OneBinaryDecReturned =>
      \A val \in WireValues :
         AllGatesZero(val) =>
           WireSum(cs.constraints[1].O, val) = WireSum(cs.constraints[1].L, val)

----------------------------------------------------------------------------
(* The gates of a binary decomposition, one by one *)

\* the variable part and the constant of O
BinaryO0 == popConstantTerm(cs.coeffs, cs.constraints[1].O)

\* the gates (and the wires) that reduce O to accQi[0]: one when O is only a
\* constant, else the additions of split and one more for a non-zero constant
ReduceGates ==
    IF Len(BinaryO0.l) = 0 THEN 1
    ELSE Len(BinaryO0.l) - 1 + (IF BinaryO0.c # 0 THEN 1 ELSE 0)

\* the first internal variable of the unified space
InternalBase == ret.sys[1].ccs.NbPublicVariables + ret.sys[1].ccs.NbSecretVariables

\* the assignments of the variables the reducing gates are about: the public
\* and secret ones and the wires made before the bit loop
ReduceValues == [1..(InternalBase + ReduceGates) -> Values]

\* the gate of iteration b and the wires accRi[b] and accQi[b + 1]
BitGate(b) == BinaryGates[ReduceGates + b + 1]
RiWire(b) == ReduceGates + 2 * b
QiWire(b) == ReduceGates + 2 * b - 1

\* the variable of the L term of coefficient 2^b
BitVar(b) ==
    cs.constraints[1].L[Min({k \in 1..Len(cs.constraints[1].L) :
                               Coeff(cs.coeffs, cs.constraints[1].L[k].cid) = Pow2(b)})].vid

\* coefficient times wire of a term of the returned system
TermOf(t, val) == Coeff(cs.coeffs, t.cid) * val[t.vid + 1]

IsWire(t, c, w) ==
    t.vis = "Internal" /\ t.vid = InternalBase + w /\ Coeff(cs.coeffs, t.cid) = c

----------------------------------------------------------------------------
(* What findUnsolvedVariable returns *)

\* the terms of the constraint in the order of the scan, each with the
\* position of its expression
ScanOrder(r1c) ==
    [k \in 1..Len(r1c.L) |-> [pos |-> 0, t |-> r1c.L[k]]]
      \o [k \in 1..Len(r1c.R) |-> [pos |-> 1, t |-> r1c.R[k]]]
      \o [k \in 1..Len(r1c.O) |-> [pos |-> 2, t |-> r1c.O[k]]]

\* the places of the scan that hold an internal variable not marked solved
UnsolvedPlaces(r1c, solvedVariables) ==
    {k \in 1..Len(ScanOrder(r1c)) :
       /\ ScanOrder(r1c)[k].t.vis = "Internal"
       /\ ~solvedVariables[ScanOrder(r1c)[k].t.vid + 1]}

FirstUnsolved(r1c, solvedVariables) ==
    IF UnsolvedPlaces(r1c, solvedVariables) = {}
    THEN [pos |-> -1, id |-> -1]
    ELSE [pos |-> ScanOrder(r1c)[Min(UnsolvedPlaces(r1c, solvedVariables))].pos,
          id |-> ScanOrder(r1c)[Min(UnsolvedPlaces(r1c, solvedVariables))].t.vid]

\* C25: on the constraint about to be lowered, findUnsolvedVariable returns
\* the position (0, 1, 2 for L, R, O) and the ID of the first internal term
\* not marked solved, scanning L, then R, then O, and (-1, -1) when there is
\* none, also when the constraint holds internal terms that are all solved
C25_FirstUnsolvedOrMinusOne ==
    (LoweringConstraint /\ NextConstraint.Solver = "SingleOutput") =>
      findUnsolvedVariable(NextConstraint, res.solvedVariables)
        = FirstUnsolved(NextConstraint, res.solvedVariables)

----------------------------------------------------------------------------
(* What split emits and returns *)

\* the variable a term of the output under construction is on
Key(t) == [vis |-> t.vis, vid |-> t.vid]

\* coefficient times wire
KeyedTerm(coeffs, t, val) ==
    IF Coeff(coeffs, t.cid) = 0 THEN 0 ELSE Coeff(coeffs, t.cid) * val[Key(t)]

KeyedGate(coeffs, g, val) ==
    KeyedTerm(coeffs, g.L, val) + KeyedTerm(coeffs, g.R, val)
      + KeyedTerm(coeffs, g.M[1], val) * KeyedTerm(coeffs, g.M[2], val)
      + KeyedTerm(coeffs, g.O, val) + Coeff(coeffs, g.K)

\* the sum of le, each term mapped to the output variable space
RECURSIVE MappedSum(_, _)
MappedSum(le, val) ==
    IF Len(le) = 0 THEN 0
    ELSE KeyedTerm(cs.coeffs, getCorrespondingTerm(Scs, le[1]), val)
           + MappedSum(Tail(le), val)

\* the gates a call on the receiver Scs left in r.s
GatesAdded(r) ==
    SubSeq(r.s.ccs.Constraints, Len(res.ccs.Constraints) + 1, Len(r.s.ccs.Constraints))

\* the variables of the mapped terms of le and the wires the call allocated
SplitKeys(le, r) ==
    {Key(getCorrespondingTerm(Scs, le[k])) : k \in 1..Len(le)}
      \cup {[vis |-> "Internal", vid |-> w] :
              w \in res.ccs.NbInternalVariables..(r.s.ccs.NbInternalVariables - 1)}

\* r is what the claim says of split(0, le), le of n >= 1 terms
SplitAsClaimed(le, r) ==
    /\ Len(GatesAdded(r)) = Len(le) - 1
    /\ r.s.ccs.Assertions = res.ccs.Assertions
    /\ r.s.ccs.NbInternalVariables = res.ccs.NbInternalVariables + Len(le) - 1
    /\ \A k \in 1..Len(GatesAdded(r)) :
          /\ GatesAdded(r)[k].O.vis = "Internal"
          /\ GatesAdded(r)[k].O.vid = res.ccs.NbInternalVariables + k - 1
          /\ Coeff(r.s.coeffs, GatesAdded(r)[k].O.cid) = 1
    /\ Len(le) = 1 => r.t = getCorrespondingTerm(Scs, le[1])
    /\ \A val \in [SplitKeys(le, r) -> Values] :
          (\A k \in 1..Len(GatesAdded(r)) : KeyedGate(r.s.coeffs, GatesAdded(r)[k], val) = 0)
            => KeyedTerm(r.s.coeffs, r.t, val) = MappedSum(le, val)

\* the expressions splitR1C hands to split: the variable parts of L, R and O
\* of the assertion about to be lowered
SplitArguments == {VarPart(NextAssertion.L), VarPart(NextAssertion.R), VarPart(NextAssertion.O)}

----------------------------------------------------------------------------
(* What popConstantTerm returns *)

\* the expressions the next step of the pass hands to popConstantTerm
PopArguments ==
    IF LoweringConstraint
    THEN IF NextConstraint.Solver = "SingleOutput"
         THEN {NextConstraint.L, NextConstraint.R, NextConstraint.O}
         ELSE {NextConstraint.O}
    ELSE IF LoweringAssertion
    THEN {NextAssertion.L, NextAssertion.R, NextAssertion.O}
    ELSE {}

\* the places of le that hold the variable 0 with the visibility Public
ConstantPlaces(le) == {k \in 1..Len(le) : le[k].vid = 0 /\ le[k].vis = "Public"}

\* r is le without its term at place k, and the value of that term's
\* coefficient
PoppedAt(le, k, r) ==
    /\ Len(r.l) = Len(le) - 1
    /\ le = SubSeq(r.l, 1, k - 1) \o <<le[k]>> \o SubSeq(r.l, k, Len(r.l))
    /\ r.c = cs.coeffs[le[k].cid + 1]

----------------------------------------------------------------------------
(* The CS -> CCS entries split reads *)

\* an internal variable of the assertion about to be lowered whose entry no
\* step has written (an entry is written when its variable is marked solved)
AssertionReadsUnwritten ==
    \E t \in TermsOf(NextAssertion) :
       t.vis = "Internal" /\ ~res.solvedVariables[t.vid + 1]

\* the constraint is of case 0011 or 0111 (f12, f16) and r is toSolve alone
ToSolveAgainInR(x) ==
    /\ caseIndex(x.lro, x.l, x.r, x.o) \in {3, 7}
    /\ Len(x.r) = 1
    /\ x.r[1].vis = "Internal"
    /\ x.r[1].vid = x.idCS

\* the last gate of f12 and f16 is R: cRes, M: [res, rt]
LastGateAfter == res'.ccs.Constraints[Len(res'.ccs.Constraints)]

\* C28: lowering reads, through split, only CS -> CCS entries written before
\* the read: where toSolve occurs in a second expression of its constraint
\* its entry is written before split reads it, so that the term rt of f12
\* and f16 is on the wire toSolve is mapped to; and an entry that was never
\* written is an error, so that lowering an assertion on an internal
\* variable no constraint solved returns an error
C28_EntriesWrittenBeforeRead ==
    [][/\ (LoweringSingleOutput /\ ToSolveAgainInR(NextLocals)) =>
            /\ LastGateAfter.M[2].vis = "Internal"
            /\ LastGateAfter.M[2].vid = res'.mCStoCCS[NextLocals.idCS + 1]
       /\ (LoweringAssertion /\ AssertionReadsUnwritten) => ret'.kind = "error"]_vars

----------------------------------------------------------------------------
(* Inputs whose every term is set *)

\* every term of every constraint and assertion is public, secret or internal
EveryTermSet ==
    /\ \A k \in 1..Len(cs.constraints) : \A t \in TermsOf(cs.constraints[k]) :
          t.vis \in {"Public", "Secret", "Internal"}
    /\ \A k \in 1..Len(cs.assertions) : \A t \in TermsOf(cs.assertions[k]) :
          t.vis \in {"Public", "Secret", "Internal"}

\* C29: for an input whose every term of every constraint and assertion is
\* public, secret or internal, the pass never returns ErrInputNotSet: no gate
\* reaches the renumbering with a term of Unset visibility that is not the
\* sentinel, whatever addConstraint and the pairing of L with M[0] and of R
\* with M[1] made of a slot the case left empty
C29_NoUnsetErrorOnSetInputs ==
    EveryTermSet => ret # Failure("ErrInputNotSet")

----------------------------------------------------------------------------
(* The solved variables and their entries over the pass *)

SolvedNow == {v \in InternalIDs : res.solvedVariables[v + 1]}
SolvedNext == {v \in InternalIDs : res'.solvedVariables[v + 1]}

\* no step resets a solved mark
SolvedMonotone == SolvedNow \subseteq SolvedNext

\* no step writes the entry of a variable an earlier step solved
EntriesKept == \A v \in SolvedNow : res'.mCStoCCS[v + 1] = res.mCStoCCS[v + 1]

\* the entry of a variable the step solved is a wire the step allocated, and
\* no other solved variable is mapped to it
EntriesFresh ==
    \A v \in SolvedNext \ SolvedNow :
       /\ res'.mCStoCCS[v + 1] >= res.ccs.NbInternalVariables
       /\ res'.mCStoCCS[v + 1] < res'.ccs.NbInternalVariables
       /\ \A u \in SolvedNext \ {v} : res'.mCStoCCS[u + 1] # res'.mCStoCCS[v + 1]

\* C30: over the whole pass a solved mark is never reset, the CS -> CCS
\* entry of a solved variable is never written again, and the entry written
\* for a newly solved variable is a wire allocated by the step that no other
\* variable is mapped to
C30_EntriesWrittenOnce ==
    [][pc = "lower" => SolvedMonotone /\ EntriesKept /\ EntriesFresh]_vars

=============================================================================
